---- MODULE Spec2Model ----
(***************************************************************************)
(* A model of the parser-state framework of powerquery-parser: the         *)
(* dual-mode node-id map, the parse-context lifecycle, fast state backup   *)
(* and rollback, the tryRead boundary, and the ancestry utilities.         *)
(*                                                                         *)
(* Conventions.  A TypeScript `T | undefined` is a sequence of length at   *)
(* most one: <<>> is undefined, <<v>> is the value v.  A Map is a function *)
(* whose DOMAIN is the set of its keys.  Token indices are 0-based as in   *)
(* the source; TLA+ sequences are 1-based, so tokens[i] is read with       *)
(* TokenAt.                                                                *)
(***************************************************************************)
EXTENDS Integers, Sequences, FiniteSets, TLC

\* ------------------------------------------------------------------ bounds

\* The parser allocates at most MaxIds node ids in one behaviour.
MaxIds == 3
\* The lexer snapshot holds at most MaxTokens tokens.
MaxTokens == 1
\* At most MaxBackups fast state backups are pending (nested) at a time.
MaxBackups == 2
\* A context's attributeCounter is not advanced beyond MaxAttributeCounter.
MaxAttributeCounter == 2
\* Ancestries drawn as inputs of the navigation primitives are this long at most.
MaxAncestry == 3
\* A defined record or table draws its fields from MaxFields field names.
MaxFields == 2
\* A finished leaf spans MaxLeafLength code units; the caret is put on each
\* of them and one past.
MaxLeafLength == 2
\* Ancestries of the primitive-type walk have up to MaxRootward nodes above
\* their MaxAncestry leafward ones.
MaxRootward == 4

\* ------------------------------------------------------------ basic values

EmptyMap == [k \in {} |-> {}]

MapGet(m, k) == IF k \in DOMAIN m THEN <<m[k]>> ELSE <<>>

MapSet(m, k, v) == [x \in (DOMAIN m) \cup {k} |-> IF x = k THEN v ELSE m[x]]

MapDelete(m, k) == [x \in (DOMAIN m) \ {k} |-> m[x]]

\* Array.prototype.indexOf, 1-based; 0 when x does not occur.
IndexOf(seq, x) ==
    IF \E i \in 1..Len(seq) : seq[i] = x
    THEN CHOOSE i \in 1..Len(seq) : seq[i] = x /\ \A j \in 1..(i - 1) : seq[j] # x
    ELSE 0

\* seq with its i-th element replaced by the elements of repl, in order.
SpliceAt(seq, i, repl) == SubSeq(seq, 1, i - 1) \o repl \o SubSeq(seq, i + 1, Len(seq))

SetMax(S) == CHOOSE m \in S : \A x \in S : x <= m

\* numbers.sort((l, r) => l - r).reverse()
RECURSIVE SortDescending(_)
SortDescending(S) ==
    IF S = {} THEN <<>>
    ELSE LET m == SetMax(S) IN <<m>> \o SortDescending(S \ {m})

\* ------------------------------------------------------------ node kinds

NodeKinds == {"LetExpression", "Constant"}

\* The kinds of terminal AST nodes (recorded in leafNodeIds).
LeafKinds == {"Constant"}

TokenKindAt(i) == IF i % 2 = 0 THEN "Identifier" ELSE "Comma"

NewToken(i) == [kind |-> TokenKindAt(i), positionStart |-> i, positionEnd |-> i + 1]

NewLexerSnapshot(n) == [tokens |-> [i \in 1..n |-> NewToken(i - 1)]]

\* lexerSnapshot.tokens[i]
TokenAt(snapshot, i) ==
    IF i + 1 \in 1..Len(snapshot.tokens) THEN <<snapshot.tokens[i + 1]>> ELSE <<>>

\* maybeToken?.kind
MaybeKind(maybeToken) == IF maybeToken = <<>> THEN <<>> ELSE <<maybeToken[1].kind>>

\* ------------------------------------------- ParseContextUtils (context state)

NewCollection ==
    [astNodeById |-> EmptyMap, contextNodeById |-> EmptyMap,
     parentIdById |-> EmptyMap, childIdsById |-> EmptyMap]

ParseContextUtils_newState == [idCounter |-> 0, leafNodeIds |-> {}, nodeIdMapCollection |-> NewCollection]

ChildIds(collection, id) ==
    IF id \in DOMAIN collection.childIdsById THEN collection.childIdsById[id] ELSE <<>>

\* The child list of parentId with the first reference to childId replaced by
\* the ids of replacement; an emptied list is dropped from the map.
RemoveOrReplaceChildId(childIdsById, parentId, childId, replacement) ==
    IF parentId \notin DOMAIN childIdsById THEN childIdsById
    ELSE LET old == childIdsById[parentId]
             i == IndexOf(old, childId)
             new == IF i = 0 THEN old ELSE SpliceAt(old, i, replacement)
         IN  IF new = <<>> THEN MapDelete(childIdsById, parentId)
             ELSE MapSet(childIdsById, parentId, new)

RECURSIVE SetParents(_, _, _)
SetParents(parentIdById, childIds, maybeParentId) ==
    IF childIds = <<>> THEN parentIdById
    ELSE LET c == Head(childIds)
             next == IF maybeParentId = <<>> THEN MapDelete(parentIdById, c)
                     ELSE MapSet(parentIdById, c, maybeParentId[1])
         IN  SetParents(next, Tail(childIds), maybeParentId)

\* The id startContext gives the next context.
NextId(state) == state.idCounter + 1

\* startContext: the next id, parent = the current context, appended to the
\* parent's child list, the parent's attributeCounter advanced.
ParseContextUtils_startContext(state, nodeKind, tokenIndexStart, maybeTokenStart, maybeParentId) ==
    LET col == state.nodeIdMapCollection
        nodeId == NextId(state)
        parentOpen == maybeParentId # <<>> /\ maybeParentId[1] \in DOMAIN col.contextNodeById
        parentNode == col.contextNodeById[maybeParentId[1]]
        node == [id |-> nodeId,
                 kind |-> nodeKind,
                 tokenIndexStart |-> tokenIndexStart,
                 maybeTokenStart |-> maybeTokenStart,
                 attributeCounter |-> 0,
                 maybeAttributeIndex |->
                     IF parentOpen THEN <<parentNode.attributeCounter>> ELSE <<>>,
                 maybeParentId |-> maybeParentId]
        contexts == IF parentOpen
                    THEN MapSet(col.contextNodeById, maybeParentId[1],
                                [parentNode EXCEPT !.attributeCounter = @ + 1])
                    ELSE col.contextNodeById
    IN  [state EXCEPT
            !.idCounter = nodeId,
            !.nodeIdMapCollection =
                [col EXCEPT
                    !.contextNodeById = MapSet(contexts, nodeId, node),
                    !.parentIdById =
                        IF maybeParentId = <<>> THEN @
                        ELSE MapSet(@, nodeId, maybeParentId[1]),
                    !.childIdsById =
                        IF maybeParentId = <<>> THEN @
                        ELSE MapSet(@, maybeParentId[1],
                                    Append(ChildIds(col, maybeParentId[1]), nodeId))]]

\* The parent of nodeId when it is an open context, else undefined.
MaybeParentContext(collection, nodeId) ==
    LET maybeParentId == MapGet(collection.parentIdById, nodeId)
    IN  IF maybeParentId # <<>> /\ maybeParentId[1] \in DOMAIN collection.contextNodeById
        THEN maybeParentId
        ELSE <<>>

\* endContext's assertions: the context is open and the payload is its own.
EndContextOk(state, contextNodeId, astNode) ==
    /\ contextNodeId \in DOMAIN state.nodeIdMapCollection.contextNodeById
    /\ astNode.id = contextNodeId
    /\ astNode.kind = state.nodeIdMapCollection.contextNodeById[contextNodeId].kind

\* endContext: the AST node takes the context's id; the context is removed.
ParseContextUtils_endContext(state, contextNodeId, astNode) ==
    LET col == state.nodeIdMapCollection
    IN  [state EXCEPT
            !.leafNodeIds = IF astNode.kind \in LeafKinds THEN @ \cup {contextNodeId} ELSE @,
            !.nodeIdMapCollection =
                [col EXCEPT
                    !.astNodeById = MapSet(@, contextNodeId, astNode),
                    !.contextNodeById = MapDelete(@, contextNodeId)]]

\* Removing nodeId from the parent/child indices: its children are reparented
\* to its parent (taking its place, in order) and it leaves its parent's list.
\* An id in its child list that is no node any more (a child deleted before it
\* without rewiring) is not reparented.
DetachRewire(collection, nodeId) ==
    LET maybeParentId == MapGet(collection.parentIdById, nodeId)
        IsNode(id) == id \in DOMAIN collection.astNodeById \cup DOMAIN collection.contextNodeById
        childIds == SelectSeq(ChildIds(collection, nodeId), IsNode)
        reparented == SetParents(collection.parentIdById, childIds, maybeParentId)
        children == MapDelete(collection.childIdsById, nodeId)
    IN  [collection EXCEPT
            !.parentIdById = MapDelete(reparented, nodeId),
            !.childIdsById =
                IF maybeParentId = <<>> THEN children
                ELSE RemoveOrReplaceChildId(children, maybeParentId[1], nodeId, childIds)]

\* Removing nodeId whose parent is about to be deleted as well: nothing is rewired.
DetachSilently(collection, nodeId) ==
    [collection EXCEPT
        !.parentIdById = MapDelete(@, nodeId),
        !.childIdsById = MapDelete(@, nodeId)]

DeleteContextOk(state, nodeId) == nodeId \in DOMAIN state.nodeIdMapCollection.contextNodeById

ParseContextUtils_deleteContext(state, nodeId) ==
    LET col == DetachRewire(state.nodeIdMapCollection, nodeId)
    IN  [state EXCEPT
            !.nodeIdMapCollection = [col EXCEPT !.contextNodeById = MapDelete(@, nodeId)]]

ParseContextUtils_deleteAst(state, nodeId, parentWillBeDeleted) ==
    LET col == IF parentWillBeDeleted
               THEN DetachSilently(state.nodeIdMapCollection, nodeId)
               ELSE DetachRewire(state.nodeIdMapCollection, nodeId)
    IN  [state EXCEPT
            !.leafNodeIds = @ \ {nodeId},
            !.nodeIdMapCollection = [col EXCEPT !.astNodeById = MapDelete(@, nodeId)]]

\* ------------------------------------------------------------------ errors

\* The diagnostics a production throws (ParseError.TInnerParseError).
InnerParseErrorKinds ==
    {"ExpectedTokenKindError", "ExpectedAnyTokenKindError", "ExpectedCsvContinuationError",
     "UnusedTokensRemainError", "UnterminatedParenthesesError", "UnterminatedBracketError",
     "InvalidPrimitiveTypeError", "RequiredParameterAfterOptionalParameterError"}

InnerCommonErrorKinds == {"CancellationError", "InvariantError", "UnknownError"}

\* An error object of class kind that wraps nothing.
NewError(kind) == [kind |-> kind, innerError |-> <<>>]

CancellationError == NewError("CancellationError")

InvariantError == NewError("InvariantError")

UnknownError(err) == [kind |-> "UnknownError", innerError |-> <<err>>]

CommonError(innerError) == [kind |-> "CommonError", innerError |-> <<innerError>>]

\* new ParseError.UnusedTokensRemainError(templates, token, positionStart)
UnusedTokensRemainError(token) ==
    [kind |-> "UnusedTokensRemainError", innerError |-> <<>>, token |-> token]

\* new ParseError.ParseError(innerError, state)
ParseError(innerError, state) ==
    [kind |-> "ParseError", innerError |-> <<innerError>>, state |-> state]

isTInnerParseError(err) == err.kind \in InnerParseErrorKinds

\* isTInnerCommonError that does not know CancellationError.
isTInnerCommonError_NoCancellation(err) == err.kind \in {"InvariantError", "UnknownError"}

isTInnerCommonError(err) == err.kind \in InnerCommonErrorKinds

\* ensureCommonError that wraps what is a CommonError already.
ensureCommonError_AlwaysWraps(err) ==
    IF isTInnerCommonError(err) THEN CommonError(err) ELSE CommonError(UnknownError(err))

ensureCommonError(err) ==
    IF err.kind = "CommonError" THEN err
    ELSE IF isTInnerCommonError(err) THEN CommonError(err)
    ELSE CommonError(UnknownError(err))

\* ------------------------------------------------------------ parser state

VARIABLES
    lexerSnapshot,            \* state.lexerSnapshot (read-only)
    tokenIndex,               \* state.tokenIndex
    maybeCurrentToken,        \* state.maybeCurrentToken
    maybeCurrentTokenKind,    \* state.maybeCurrentTokenKind
    contextState,             \* state.contextState
    maybeCurrentContextNode,  \* state.maybeCurrentContextNode, by the node's id
    backups,                  \* the pending FastStateBackups, innermost first
    history,                  \* per pending backup: what the state was when it was taken
    pc,                       \* "read": inside parser.read; "done": tryRead returned;
                              \* "inspected": an ancestry is at hand;
                              \* "navigated": a navigation primitive was applied
    readOutcome,              \* how parser.read ended: what it threw or returned
    result,                   \* what tryRead returned
    lastOp,                   \* the operation that produced this state
    ancestry,                 \* the ancestry the navigation primitives are given
    nth,                      \* the outcome of maybeNthPreviousXor / maybeNthNextXor
    inspection                \* an inspection's call: its function, arguments and result

vars ==
    <<lexerSnapshot, tokenIndex, maybeCurrentToken, maybeCurrentTokenKind, contextState,
      maybeCurrentContextNode, backups, history, pc, readOutcome, result, lastOp, ancestry,
      nth, inspection>>

\* The IParserState object.
State ==
    [lexerSnapshot |-> lexerSnapshot,
     tokenIndex |-> tokenIndex,
     maybeCurrentToken |-> maybeCurrentToken,
     maybeCurrentTokenKind |-> maybeCurrentTokenKind,
     contextState |-> contextState,
     maybeCurrentContextNode |-> maybeCurrentContextNode]

Collection == contextState.nodeIdMapCollection

AstIds == DOMAIN Collection.astNodeById

ContextIds == DOMAIN Collection.contextNodeById

LiveIds == AstIds \cup ContextIds

\* What a rollback is to restore: the token index, the id counter and the node-id
\* map without the context nodes' payloads.
View ==
    [tokenIndex |-> tokenIndex,
     idCounter |-> contextState.idCounter,
     astNodeById |-> Collection.astNodeById,
     contextIds |-> ContextIds,
     parentIdById |-> Collection.parentIdById,
     childIdsById |-> Collection.childIdsById]

\* ---------------------------------------------------------------- tryRead

assertNoOpenContext(state) ==
    IF state.maybeCurrentContextNode = <<>> THEN <<>> ELSE <<InvariantError>>

\* assertNoMoreTokens that accepts unread tokens.
assertNoMoreTokens_Passes(state) == <<>>

assertNoMoreTokens(state) ==
    IF state.tokenIndex = Len(state.lexerSnapshot.tokens) THEN <<>>
    ELSE IF TokenAt(state.lexerSnapshot, state.tokenIndex) = <<>> THEN <<InvariantError>>
    ELSE <<UnusedTokensRemainError(TokenAt(state.lexerSnapshot, state.tokenIndex)[1])>>

errFactory(error) == [kind |-> "Err", error |-> error]

okFactory(value) == [kind |-> "Ok", value |-> value]

\* tryRead that looks for unread tokens before it looks for an open context.
tryRead_TokensFirst(state, outcome) ==
    IF outcome.threw
    THEN IF isTInnerParseError(outcome.error)
         THEN errFactory(ParseError(outcome.error, state))
         ELSE errFactory(ensureCommonError(outcome.error))
    ELSE IF assertNoMoreTokens(state) # <<>>
         THEN errFactory(ParseError(assertNoMoreTokens(state)[1], state))
    ELSE IF assertNoOpenContext(state) # <<>>
         THEN errFactory(CommonError(assertNoOpenContext(state)[1]))
    ELSE okFactory([root |-> outcome.root,
                    nodeIdMapCollection |-> state.contextState.nodeIdMapCollection,
                    leafNodeIds |-> state.contextState.leafNodeIds,
                    state |-> state])

\* tryRead once parser.read has thrown outcome.error or returned outcome.root,
\* leaving the parser state as state.
tryRead(state, outcome) ==
    IF outcome.threw
    THEN IF isTInnerParseError(outcome.error)
         THEN errFactory(ParseError(outcome.error, state))
         ELSE errFactory(ensureCommonError(outcome.error))
    ELSE IF assertNoOpenContext(state) # <<>>
         THEN errFactory(CommonError(assertNoOpenContext(state)[1]))
    ELSE IF assertNoMoreTokens(state) # <<>>
         THEN errFactory(ParseError(assertNoMoreTokens(state)[1], state))
    ELSE okFactory([root |-> outcome.root,
                    nodeIdMapCollection |-> state.contextState.nodeIdMapCollection,
                    leafNodeIds |-> state.contextState.leafNodeIds,
                    state |-> state])

Threw(err) == [threw |-> TRUE, error |-> err]

Returned(root) == [threw |-> FALSE, root |-> root]

\* stateFactory
Init ==
    /\ lexerSnapshot \in {NewLexerSnapshot(n) : n \in 0..MaxTokens}
    /\ tokenIndex = 0
    /\ maybeCurrentToken = TokenAt(lexerSnapshot, 0)
    /\ maybeCurrentTokenKind = MaybeKind(TokenAt(lexerSnapshot, 0))
    /\ contextState = ParseContextUtils_newState
    /\ maybeCurrentContextNode = <<>>
    /\ backups = <<>>
    /\ history = <<>>
    /\ pc = "read"
    /\ readOutcome = [pending |-> TRUE]
    /\ result = [kind |-> "None"]
    /\ lastOp = "stateFactory"
    /\ ancestry = [threw |-> FALSE, value |-> <<>>]
    /\ nth = [fn |-> "none"]
    /\ inspection = [fn |-> "none"]

\* ------------------------------------------------- IParserStateUtils: contexts

\* An operation on the parser state returns, leaving state.
Returns(state) == [state |-> state, threw |-> FALSE]

\* An operation on the parser state raises an InvariantError, leaving state.
Raises(state) == [state |-> state, threw |-> TRUE]

\* startContext that hands the new context its own id as its parent.
startContext_UnderItself(state, nodeKind) ==
    Returns([state EXCEPT
        !.contextState =
            ParseContextUtils_startContext(state.contextState, nodeKind, state.tokenIndex,
                                           state.maybeCurrentToken,
                                           <<NextId(state.contextState)>>),
        !.maybeCurrentContextNode = <<NextId(state.contextState)>>])

startContext(state, nodeKind) ==
    Returns([state EXCEPT
        !.contextState =
            ParseContextUtils_startContext(state.contextState, nodeKind, state.tokenIndex,
                                           state.maybeCurrentToken,
                                           state.maybeCurrentContextNode),
        !.maybeCurrentContextNode = <<NextId(state.contextState)>>])

\* endContext that leaves the ended context current.
endContext_KeepsCurrent(state, astNode) ==
    IF state.maybeCurrentContextNode = <<>> THEN Raises(state)
    ELSE IF ~EndContextOk(state.contextState, state.maybeCurrentContextNode[1], astNode)
    THEN Raises(state)
    ELSE Returns([state EXCEPT
        !.contextState =
            ParseContextUtils_endContext(state.contextState,
                                         state.maybeCurrentContextNode[1], astNode)])

endContext(state, astNode) ==
    IF state.maybeCurrentContextNode = <<>> THEN Raises(state)
    ELSE IF ~EndContextOk(state.contextState, state.maybeCurrentContextNode[1], astNode)
    THEN Raises(state)
    ELSE Returns([state EXCEPT
        !.contextState =
            ParseContextUtils_endContext(state.contextState,
                                         state.maybeCurrentContextNode[1], astNode),
        !.maybeCurrentContextNode =
            MaybeParentContext(state.contextState.nodeIdMapCollection,
                               state.maybeCurrentContextNode[1])])

deleteContext(state, maybeNodeId) ==
    LET maybeId == IF maybeNodeId = <<>> THEN state.maybeCurrentContextNode ELSE maybeNodeId
    IN  IF maybeId = <<>> THEN Raises(state)
        ELSE IF ~DeleteContextOk(state.contextState, maybeId[1]) THEN Raises(state)
        ELSE Returns([state EXCEPT
            !.contextState = ParseContextUtils_deleteContext(state.contextState, maybeId[1]),
            !.maybeCurrentContextNode =
                MaybeParentContext(state.contextState.nodeIdMapCollection, maybeId[1])])

\* incrementAttributeCounter that does nothing when no context is open.
incrementAttributeCounter_Unchecked(state) ==
    IF state.maybeCurrentContextNode = <<>> THEN Returns(state)
    ELSE Returns([state EXCEPT
        !.contextState.nodeIdMapCollection.contextNodeById[
            state.maybeCurrentContextNode[1]].attributeCounter = @ + 1])

\* The current context is the node object the map holds, so the map sees the
\* counter advance.
incrementAttributeCounter(state) ==
    IF state.maybeCurrentContextNode = <<>> THEN Raises(state)
    ELSE Returns([state EXCEPT
        !.contextState.nodeIdMapCollection.contextNodeById[
            state.maybeCurrentContextNode[1]].attributeCounter = @ + 1])

\* assertGetContextNodeMetadata's assertions.
assertGetContextNodeMetadataOk(state) ==
    /\ state.maybeCurrentContextNode # <<>>
    /\ state.maybeCurrentContextNode[1]
           \in DOMAIN state.contextState.nodeIdMapCollection.contextNodeById
    /\ state.contextState.nodeIdMapCollection.contextNodeById[
           state.maybeCurrentContextNode[1]].maybeTokenStart # <<>>
    /\ TokenAt(state.lexerSnapshot, state.tokenIndex - 1) # <<>>

assertGetContextNodeMetadata(state) ==
    LET contextNode == state.contextState.nodeIdMapCollection.contextNodeById[
                           state.maybeCurrentContextNode[1]]
    IN  [id |-> contextNode.id,
         maybeAttributeIndex |-> contextNode.maybeAttributeIndex,
         tokenRange |-> [tokenIndexStart |-> contextNode.tokenIndexStart,
                         tokenIndexEnd |-> state.tokenIndex - 1]]

\* The AST node a production of kind nodeKind builds for the current context.
NewAstNode(state, nodeKind) ==
    LET metadata == assertGetContextNodeMetadata(state)
    IN  [id |-> metadata.id,
         kind |-> nodeKind,
         maybeAttributeIndex |-> metadata.maybeAttributeIndex,
         tokenRange |-> metadata.tokenRange]

\* A production ends the current context with the node it built from the
\* context's metadata.
EndProduction(state, nodeKind) ==
    IF ~assertGetContextNodeMetadataOk(state) THEN Raises(state)
    ELSE endContext(state, NewAstNode(state, nodeKind))

\* A production consumes the current token.
readToken(state) ==
    Returns([state EXCEPT
        !.tokenIndex = state.tokenIndex + 1,
        !.maybeCurrentToken = TokenAt(state.lexerSnapshot, state.tokenIndex + 1),
        !.maybeCurrentTokenKind = MaybeKind(TokenAt(state.lexerSnapshot, state.tokenIndex + 1))])

\* ---------------------------------------------- IParserStateUtils: backups

\* fastStateBackup that records the id the next context will get.
fastStateBackup_CounterAhead(state) ==
    [tokenIndex |-> state.tokenIndex,
     contextStateIdCounter |-> state.contextState.idCounter + 1,
     maybeContextNodeId |-> state.maybeCurrentContextNode]

fastStateBackup(state) ==
    [tokenIndex |-> state.tokenIndex,
     contextStateIdCounter |-> state.contextState.idCounter,
     maybeContextNodeId |-> state.maybeCurrentContextNode]

\* The hint applyFastStateBackup gives deleteAst for a node with this parent.
ParentWillBeDeleted(maybeParentId, backupIdCounter) ==
    maybeParentId # <<>> /\ maybeParentId[1] >= backupIdCounter

RECURSIVE DeleteNewAsts(_, _, _)
DeleteNewAsts(state, nodeIds, backupIdCounter) ==
    IF nodeIds = <<>> THEN state
    ELSE LET nodeId == Head(nodeIds)
             maybeParentId == MapGet(state.nodeIdMapCollection.parentIdById, nodeId)
             parentWillBeDeleted == ParentWillBeDeleted(maybeParentId, backupIdCounter)
         IN  DeleteNewAsts(ParseContextUtils_deleteAst(state, nodeId, parentWillBeDeleted),
                           Tail(nodeIds), backupIdCounter)

\* The hints the loop over the new AST nodes computes, one record per node
\* deleted: the node, its parent at that moment and parentWillBeDeleted.
RECURSIVE DeleteNewAstsHints(_, _, _)
DeleteNewAstsHints(state, nodeIds, backupIdCounter) ==
    IF nodeIds = <<>> THEN {}
    ELSE LET nodeId == Head(nodeIds)
             maybeParentId == MapGet(state.nodeIdMapCollection.parentIdById, nodeId)
             parentWillBeDeleted == ParentWillBeDeleted(maybeParentId, backupIdCounter)
         IN  {[nodeId |-> nodeId, maybeParentId |-> maybeParentId,
               parentWillBeDeleted |-> parentWillBeDeleted]}
             \cup DeleteNewAstsHints(
                      ParseContextUtils_deleteAst(state, nodeId, parentWillBeDeleted),
                      Tail(nodeIds), backupIdCounter)

RECURSIVE DeleteNewContexts(_, _)
DeleteNewContexts(state, nodeIds) ==
    IF nodeIds = <<>> THEN state
    ELSE DeleteNewContexts(ParseContextUtils_deleteContext(state, Head(nodeIds)),
                           Tail(nodeIds))

\* The ids applyFastStateBackup collects from a map of nodes.
NewNodeIds(nodeById, backupIdCounter) == {nodeId \in DOMAIN nodeById : nodeId > backupIdCounter}

\* applyFastStateBackup that deletes the new contexts before the new AST nodes.
RollbackOrder_ContextsFirst(state, backup) ==
    SortDescending(NewNodeIds(state.nodeIdMapCollection.contextNodeById,
                              backup.contextStateIdCounter))
    \o SortDescending(NewNodeIds(state.nodeIdMapCollection.astNodeById,
                                 backup.contextStateIdCounter))

\* The order in which applyFastStateBackup deletes: the new AST nodes,
\* greatest id first, then the new contexts, greatest id first.
RollbackOrder(state, backup) ==
    SortDescending(NewNodeIds(state.nodeIdMapCollection.astNodeById,
                              backup.contextStateIdCounter))
    \o SortDescending(NewNodeIds(state.nodeIdMapCollection.contextNodeById,
                                 backup.contextStateIdCounter))

\* The context state applyFastStateBackup leaves: the id counter reset, the new
\* AST nodes deleted (greatest id first), then the new contexts (greatest first).
RollbackContextState(state, backup) ==
    LET backupIdCounter == backup.contextStateIdCounter
        col == state.nodeIdMapCollection
        newAstNodeIds == NewNodeIds(col.astNodeById, backupIdCounter)
        newContextNodeIds == NewNodeIds(col.contextNodeById, backupIdCounter)
        reset == [state EXCEPT !.idCounter = backupIdCounter]
        astsDeleted == DeleteNewAsts(reset, SortDescending(newAstNodeIds), backupIdCounter)
    IN  DeleteNewContexts(astsDeleted, SortDescending(newContextNodeIds))

\* if (backup.maybeContextNodeId)
Truthy(maybeNumber) == maybeNumber # <<>> /\ maybeNumber[1] # 0

\* applyFastStateBackup that leaves the current context where the discarded
\* read left it.
applyFastStateBackup_KeepsCurrent(state, backup) ==
    Returns([state EXCEPT
        !.tokenIndex = backup.tokenIndex,
        !.maybeCurrentToken = TokenAt(state.lexerSnapshot, backup.tokenIndex),
        !.maybeCurrentTokenKind = MaybeKind(TokenAt(state.lexerSnapshot, backup.tokenIndex)),
        !.contextState = RollbackContextState(state.contextState, backup)])

\* applyFastStateBackup that moves tokenIndex back and leaves the current
\* token as the discarded read left it.
applyFastStateBackup_StaleToken(state, backup) ==
    LET rolled == [state EXCEPT
                      !.tokenIndex = backup.tokenIndex,
                      !.contextState = RollbackContextState(state.contextState, backup)]
    IN  IF ~Truthy(backup.maybeContextNodeId)
        THEN Returns([rolled EXCEPT !.maybeCurrentContextNode = <<>>])
        ELSE IF backup.maybeContextNodeId[1]
                    \in DOMAIN rolled.contextState.nodeIdMapCollection.contextNodeById
        THEN Returns([rolled EXCEPT !.maybeCurrentContextNode = backup.maybeContextNodeId])
        ELSE Raises(rolled)

applyFastStateBackup(state, backup) ==
    LET rolled == [state EXCEPT
                      !.tokenIndex = backup.tokenIndex,
                      !.maybeCurrentToken = TokenAt(state.lexerSnapshot, backup.tokenIndex),
                      !.maybeCurrentTokenKind =
                          MaybeKind(TokenAt(state.lexerSnapshot, backup.tokenIndex)),
                      !.contextState = RollbackContextState(state.contextState, backup)]
    IN  IF ~Truthy(backup.maybeContextNodeId)
        THEN Returns([rolled EXCEPT !.maybeCurrentContextNode = <<>>])
        ELSE IF backup.maybeContextNodeId[1]
                    \in DOMAIN rolled.contextState.nodeIdMapCollection.contextNodeById
        THEN Returns([rolled EXCEPT !.maybeCurrentContextNode = backup.maybeContextNodeId])
        ELSE Raises(rolled)

\* ------------------------------------------------------------ parser.read

\* The parser state becomes state.
SetState(state) ==
    /\ lexerSnapshot' = state.lexerSnapshot
    /\ tokenIndex' = state.tokenIndex
    /\ maybeCurrentToken' = state.maybeCurrentToken
    /\ maybeCurrentTokenKind' = state.maybeCurrentTokenKind
    /\ contextState' = state.contextState
    /\ maybeCurrentContextNode' = state.maybeCurrentContextNode

\* parser.read ends with outcome: tryRead returns.
ReadEnds(outcome) ==
    /\ pc' = "done"
    /\ readOutcome' = outcome
    /\ result' = tryRead(State', outcome)

\* A step of parser.read: operation op left the parser state as in done; if it
\* raised, the InvariantError ends parser.read.
Step(op, done) ==
    /\ pc = "read"
    /\ SetState(done.state)
    /\ lastOp' = op
    /\ UNCHANGED <<ancestry, nth, inspection>>
    /\ IF done.threw THEN ReadEnds(Threw(InvariantError))
       ELSE UNCHANGED <<pc, readOutcome, result>>

\* history with id recorded as created since each pending backup.
Created(id) == [i \in DOMAIN history |-> [history[i] EXCEPT !.created = @ \cup {id}]]

\* history once its innermost backup is gone: the ids above idCounter are no
\* longer created.
Uncreated(idCounter) ==
    [i \in 1..(Len(history) - 1) |->
        [history[i + 1] EXCEPT !.created = {id \in @ : id <= idCounter}]]

StartContext(nodeKind) ==
    /\ pc = "read"
    /\ contextState.idCounter < MaxIds
    /\ maybeCurrentContextNode # <<>> =>
           Collection.contextNodeById[maybeCurrentContextNode[1]].attributeCounter
               < MaxAttributeCounter
    /\ Step("startContext", startContext(State, nodeKind))
    /\ history' = Created(NextId(contextState))
    /\ UNCHANGED backups

EndContext(nodeKind) ==
    /\ Step("endContext", EndProduction(State, nodeKind))
    /\ UNCHANGED <<backups, history>>

DeleteContext(maybeNodeId) ==
    /\ Step("deleteContext", deleteContext(State, maybeNodeId))
    /\ UNCHANGED <<backups, history>>

ReadToken ==
    /\ tokenIndex < Len(lexerSnapshot.tokens)
    /\ Step("readToken", readToken(State))
    /\ UNCHANGED <<backups, history>>

\* A production takes a backup before a tentative read.
FastStateBackup ==
    /\ Len(backups) < MaxBackups
    /\ Step("fastStateBackup", Returns(State))
    /\ backups' = <<fastStateBackup(State)>> \o backups
    /\ history' = <<[at |-> View, created |-> {}]>> \o history

\* The tentative read failed: its backup is applied.
ApplyFastStateBackup ==
    /\ backups # <<>>
    /\ Step("applyFastStateBackup", applyFastStateBackup(State, Head(backups)))
    /\ backups' = Tail(backups)
    /\ history' = Uncreated(Head(backups).contextStateIdCounter)

\* The tentative read succeeded: its backup is dropped unused.
DropFastStateBackup ==
    /\ backups # <<>>
    /\ Step("dropFastStateBackup", Returns(State))
    /\ backups' = Tail(backups)
    /\ history' = Tail(history)

\* What a production or a poll point may throw.
ThrownErrors ==
    {NewError("ExpectedTokenKindError"), CancellationError, InvariantError,
     CommonError(InvariantError), NewError("Error")}

ReadThrows(err) ==
    /\ pc = "read"
    /\ lastOp' = "read"
    /\ UNCHANGED <<lexerSnapshot, tokenIndex, maybeCurrentToken, maybeCurrentTokenKind,
                   contextState, maybeCurrentContextNode, backups, history, ancestry, nth, inspection>>
    /\ ReadEnds(Threw(err))

\* parser.read returns an AST node it built.
ReadReturns(root) ==
    /\ pc = "read"
    /\ root \in AstIds
    /\ lastOp' = "read"
    /\ UNCHANGED <<lexerSnapshot, tokenIndex, maybeCurrentToken, maybeCurrentTokenKind,
                   contextState, maybeCurrentContextNode, backups, history, ancestry, nth, inspection>>
    /\ ReadEnds(Returned(root))

\* ---------------------------------------------------------- ancestryUtils

XorAst(astNode) == [kind |-> "Ast", node |-> astNode]

XorContext(contextNode) == [kind |-> "Context", node |-> contextNode]

\* NodeIdMapIterator.assertIterXor: each id as the XorNode of the map that
\* holds it; an id in neither map is an invariant violation.
assertIterXor(collection, nodeIds) ==
    IF \E i \in 1..Len(nodeIds) :
           /\ nodeIds[i] \notin DOMAIN collection.astNodeById
           /\ nodeIds[i] \notin DOMAIN collection.contextNodeById
    THEN [threw |-> TRUE, value |-> <<>>]
    ELSE [threw |-> FALSE,
          value |-> [i \in 1..Len(nodeIds) |->
                        IF nodeIds[i] \in DOMAIN collection.astNodeById
                        THEN XorAst(collection.astNodeById[nodeIds[i]])
                        ELSE XorContext(collection.contextNodeById[nodeIds[i]])]]

\* The while loop of assertGetAncestry; it gives up after fuel rounds, which is
\* one more than there are entries in parentIdById to follow.
RECURSIVE AncestryIds(_, _, _, _)
AncestryIds(parentIdById, ancestryIds, maybeParentId, fuel) ==
    IF ~Truthy(maybeParentId) THEN [diverges |-> FALSE, ids |-> ancestryIds]
    ELSE IF fuel = 0 THEN [diverges |-> TRUE, ids |-> ancestryIds]
    ELSE AncestryIds(parentIdById, Append(ancestryIds, maybeParentId[1]),
                     MapGet(parentIdById, maybeParentId[1]), fuel - 1)

\* assertGetAncestry that leaves out the node the walk starts from.
assertGetAncestry_FromParent(collection, rootId) ==
    LET walk == AncestryIds(collection.parentIdById, <<>>,
                            MapGet(collection.parentIdById, rootId),
                            Cardinality(DOMAIN collection.parentIdById) + 1)
    IN  IF walk.diverges THEN [threw |-> FALSE, diverges |-> TRUE, value |-> <<>>]
        ELSE [threw |-> assertIterXor(collection, walk.ids).threw,
              diverges |-> FALSE,
              value |-> assertIterXor(collection, walk.ids).value]

assertGetAncestry(collection, rootId) ==
    LET walk == AncestryIds(collection.parentIdById, <<rootId>>,
                            MapGet(collection.parentIdById, rootId),
                            Cardinality(DOMAIN collection.parentIdById) + 1)
    IN  IF walk.diverges THEN [threw |-> FALSE, diverges |-> TRUE, value |-> <<>>]
        ELSE [threw |-> assertIterXor(collection, walk.ids).threw,
              diverges |-> FALSE,
              value |-> assertIterXor(collection, walk.ids).value]

\* array[index] of a 0-based array
ArrayAt(array, index) == IF index + 1 \in 1..Len(array) THEN <<array[index + 1]>> ELSE <<>>

\* The kind filter both navigation primitives end with.
FilterKind(maybeXorNode, maybeAllowedNodeKinds) ==
    IF maybeXorNode # <<>> /\ maybeAllowedNodeKinds # <<>>
    THEN IF maybeXorNode[1].node.kind \in maybeAllowedNodeKinds[1] THEN maybeXorNode ELSE <<>>
    ELSE maybeXorNode

\* maybeNthPreviousXor without its kind filter.
maybeNthPreviousXor_Unfiltered(xorNodes, ancestryIndex, n, maybeAllowedNodeKinds) ==
    ArrayAt(xorNodes, ancestryIndex - n)

maybeNthPreviousXor(xorNodes, ancestryIndex, n, maybeAllowedNodeKinds) ==
    FilterKind(ArrayAt(xorNodes, ancestryIndex - n), maybeAllowedNodeKinds)

maybeNthNextXor(xorNodes, ancestryIndex, n, maybeAllowedNodeKinds) ==
    FilterKind(ArrayAt(xorNodes, ancestryIndex + n), maybeAllowedNodeKinds)

\* ------------------------------------------------------------ behaviours

Next ==
    \/ \E nodeKind \in NodeKinds : StartContext(nodeKind)
    \/ \E nodeKind \in NodeKinds : EndContext(nodeKind)
    \/ \E maybeNodeId \in {<<>>} \cup {<<id>> : id \in 1..MaxIds} : DeleteContext(maybeNodeId)
    \/ ReadToken
    \/ FastStateBackup
    \/ ApplyFastStateBackup
    \/ DropFastStateBackup
    \/ \E err \in ThrownErrors : ReadThrows(err)
    \/ \E root \in 1..MaxIds : ReadReturns(root)

Spec == Init /\ [][Next]_vars

\* ------------------------------------------- the current context, directly

\* The AST nodes endContext is handed: of any id and kind, the current
\* context's or not.
AstNodeInputs ==
    {[id |-> id, kind |-> nodeKind, maybeAttributeIndex |-> <<>>,
      tokenRange |-> [tokenIndexStart |-> 0, tokenIndexEnd |-> 0]] :
        id \in 1..MaxIds, nodeKind \in NodeKinds}

EndContextWith(astNode) ==
    /\ Step("endContext", endContext(State, astNode))
    /\ UNCHANGED <<backups, history>>

IncrementAttributeCounter ==
    /\ maybeCurrentContextNode # <<>> =>
           /\ maybeCurrentContextNode[1] \in ContextIds
           /\ Collection.contextNodeById[maybeCurrentContextNode[1]].attributeCounter
                  < MaxAttributeCounter
    /\ Step("incrementAttributeCounter", incrementAttributeCounter(State))
    /\ UNCHANGED <<backups, history>>

\* The operations on the current context, with no backup pending.
NextContexts ==
    \/ \E nodeKind \in NodeKinds : StartContext(nodeKind)
    \/ \E astNode \in AstNodeInputs : EndContextWith(astNode)
    \/ DeleteContext(<<>>)
    \/ IncrementAttributeCounter
    \/ ReadToken

SpecContexts == Init /\ [][NextContexts]_vars

\* ------------------------------------------------- ancestry of built maps

\* The ancestry of rootId is taken from the map parser.read has built so far.
GetAncestry(rootId) ==
    /\ pc = "read"
    /\ pc' = "inspected"
    /\ lastOp' = "assertGetAncestry"
    /\ ancestry' = [rootId |-> rootId,
                    threw |-> assertGetAncestry(Collection, rootId).threw,
                    diverges |-> assertGetAncestry(Collection, rootId).diverges,
                    value |-> assertGetAncestry(Collection, rootId).value]
    /\ UNCHANGED <<lexerSnapshot, tokenIndex, maybeCurrentToken, maybeCurrentTokenKind,
                   contextState, maybeCurrentContextNode, backups, history, readOutcome, result,
                   nth, inspection>>

NextAncestry ==
    \/ \E nodeKind \in NodeKinds : StartContext(nodeKind)
    \/ \E nodeKind \in NodeKinds : EndContext(nodeKind)
    \/ \E maybeNodeId \in {<<>>} \cup {<<id>> : id \in 1..MaxIds} : DeleteContext(maybeNodeId)
    \/ ReadToken
    \/ FastStateBackup
    \/ ApplyFastStateBackup
    \/ \E rootId \in 1..MaxIds : GetAncestry(rootId)

SpecAncestry == Init /\ [][NextAncestry]_vars

\* ------------------------------------------ navigation over any ancestry

\* The XorNodes ancestries are drawn from.
XorNodeInputs == {[kind |-> tag, node |-> [kind |-> nodeKind]] :
                     tag \in {"Ast", "Context"}, nodeKind \in NodeKinds}

SeqsUpTo(S, n) == UNION {[1..m -> S] : m \in 0..n}

InitNavigation ==
    /\ lexerSnapshot = NewLexerSnapshot(0)
    /\ tokenIndex = 0
    /\ maybeCurrentToken = <<>>
    /\ maybeCurrentTokenKind = <<>>
    /\ contextState = ParseContextUtils_newState
    /\ maybeCurrentContextNode = <<>>
    /\ backups = <<>>
    /\ history = <<>>
    /\ pc = "inspected"
    /\ readOutcome = [pending |-> TRUE]
    /\ result = [kind |-> "None"]
    /\ lastOp = "assertGetAncestry"
    /\ ancestry \in {[threw |-> FALSE, diverges |-> FALSE, value |-> xorNodes] :
                        xorNodes \in SeqsUpTo(XorNodeInputs, MaxAncestry)}
    /\ nth = [fn |-> "none"]
    /\ inspection = [fn |-> "none"]

Navigate(fn, ancestryIndex, n, maybeAllowedNodeKinds, maybeXorNode) ==
    /\ pc = "inspected"
    /\ nth' = [fn |-> fn, ancestryIndex |-> ancestryIndex, n |-> n,
               maybeAllowedNodeKinds |-> maybeAllowedNodeKinds, result |-> maybeXorNode]
    /\ pc' = "navigated"
    /\ lastOp' = fn
    /\ UNCHANGED <<lexerSnapshot, tokenIndex, maybeCurrentToken, maybeCurrentTokenKind,
                   contextState, maybeCurrentContextNode, backups, history, readOutcome, result,
                   ancestry, inspection>>

NthPrevious(ancestryIndex, n, maybeAllowedNodeKinds) ==
    Navigate("maybeNthPreviousXor", ancestryIndex, n, maybeAllowedNodeKinds,
             maybeNthPreviousXor(ancestry.value, ancestryIndex, n, maybeAllowedNodeKinds))

NthNext(ancestryIndex, n, maybeAllowedNodeKinds) ==
    Navigate("maybeNthNextXor", ancestryIndex, n, maybeAllowedNodeKinds,
             maybeNthNextXor(ancestry.value, ancestryIndex, n, maybeAllowedNodeKinds))

KindFilters == {<<>>} \cup {<<kinds>> : kinds \in SUBSET NodeKinds}

NextNavigation ==
    \/ \E ancestryIndex \in 0..MaxAncestry, n \in -1..MaxAncestry,
          maybeAllowedNodeKinds \in KindFilters :
           NthPrevious(ancestryIndex, n, maybeAllowedNodeKinds)
    \/ \E ancestryIndex \in 0..MaxAncestry, n \in -1..MaxAncestry,
          maybeAllowedNodeKinds \in KindFilters :
           NthNext(ancestryIndex, n, maybeAllowedNodeKinds)

SpecNavigation == InitNavigation /\ [][NextNavigation]_vars

\* ------------------------------------------- binary-op type inference
\*
\* A Type.TType is a record: kind, maybeExtendedKind and isNullable, and for
\* a DefinedRecord or DefinedTable also fields (a Map from field name to
\* TType) and isOpen.  An XorNode handed to the inference carries the type
\* inspectXor finds for it in its "type" field.

\* The type kinds the source and its specification name.
TypeKinds == {"Any", "Binary", "Date", "DateTime", "DateTimeZone", "Duration", "Function",
              "List", "Logical", "None", "Null", "Number", "Record", "Table", "Text", "Time",
              "Unknown"}

RelationalOperatorKinds == {">", ">=", "<", "<="}
EqualityOperatorKinds == {"=", "<>"}
ArithmeticOperatorKinds == {"*", "/", "+", "-", "&"}
LogicalOperatorKinds == {"and", "or"}
KeywordOperatorKinds == {"as", "is", "meta"}

TBinOpExpressionOperators ==
    RelationalOperatorKinds \cup EqualityOperatorKinds \cup ArithmeticOperatorKinds
        \cup LogicalOperatorKinds \cup KeywordOperatorKinds

primitiveTypeFactory(isNullable, typeKind) ==
    [kind |-> typeKind, maybeExtendedKind |-> <<>>, isNullable |-> isNullable]

anyUnionFactory(unionedTypePairs) ==
    [kind |-> "Any", maybeExtendedKind |-> <<"AnyUnion">>,
     isNullable |-> \E i \in 1..Len(unionedTypePairs) : unionedTypePairs[i].isNullable,
     unionedTypePairs |-> unionedTypePairs]

UnknownInstance == primitiveTypeFactory(FALSE, "Unknown")
NoneInstance == primitiveTypeFactory(FALSE, "None")

inspectXor(xorNode) == xorNode.type

\* A key that leaves the right operand's kind out.
lookupKey_LeftKindTwice(leftTypeKind, operatorKind, rightTypeKind) ==
    leftTypeKind \o "," \o operatorKind \o "," \o leftTypeKind

\* `${leftTypeKind},${operatorKind},${rightTypeKind}`
lookupKey(leftTypeKind, operatorKind, rightTypeKind) ==
    leftTypeKind \o "," \o operatorKind \o "," \o rightTypeKind

\* `${leftTypeKind},${operatorKind}`
partialLookupKey(leftTypeKind, operatorKind) == leftTypeKind \o "," \o operatorKind

createLookupsForRelational(typeKind) ==
    << <<lookupKey(typeKind, ">", typeKind), "Logical">>,
       <<lookupKey(typeKind, ">=", typeKind), "Logical">>,
       <<lookupKey(typeKind, "<", typeKind), "Logical">>,
       <<lookupKey(typeKind, "<=", typeKind), "Logical">> >>

createLookupsForEquality_OnlyEqualTo(typeKind) ==
    << <<lookupKey(typeKind, "=", typeKind), "Logical">> >>

createLookupsForEquality(typeKind) ==
    << <<lookupKey(typeKind, "=", typeKind), "Logical">>,
       <<lookupKey(typeKind, "<>", typeKind), "Logical">> >>

createLookupsForArithmetic(typeKind) ==
    << <<lookupKey(typeKind, "+", typeKind), typeKind>>,
       <<lookupKey(typeKind, "/", typeKind), typeKind>>,
       <<lookupKey(typeKind, "*", typeKind), typeKind>>,
       <<lookupKey(typeKind, "-", typeKind), typeKind>> >>

createLookupsForLogical(typeKind) ==
    << <<lookupKey(typeKind, "and", typeKind), typeKind>>,
       <<lookupKey(typeKind, "or", typeKind), typeKind>> >>

createLookupsForClockKind(typeKind) ==
    << <<lookupKey(typeKind, "+", "Duration"), typeKind>>,
       <<lookupKey("Duration", "+", typeKind), typeKind>>,
       <<lookupKey(typeKind, "-", "Duration"), typeKind>>,
       <<lookupKey(typeKind, "-", typeKind), "Duration">> >>

\* The entries handed to `new Map([...])`, in the order they are written.
LookupEntries ==
    createLookupsForRelational("Null") \o createLookupsForEquality("Null")
    \o createLookupsForRelational("Logical") \o createLookupsForEquality("Logical")
    \o createLookupsForLogical("Logical")
    \o createLookupsForRelational("Number") \o createLookupsForEquality("Number")
    \o createLookupsForArithmetic("Number")
    \o createLookupsForRelational("Time") \o createLookupsForEquality("Time")
    \o createLookupsForClockKind("Time")
    \o << <<lookupKey("Date", "&", "Time"), "DateTime">> >>
    \o createLookupsForRelational("Date") \o createLookupsForEquality("Date")
    \o createLookupsForClockKind("Date")
    \o << <<lookupKey("Date", "&", "Time"), "DateTime">> >>
    \o createLookupsForRelational("DateTime") \o createLookupsForEquality("DateTime")
    \o createLookupsForClockKind("DateTime")
    \o createLookupsForRelational("DateTimeZone") \o createLookupsForEquality("DateTimeZone")
    \o createLookupsForClockKind("DateTimeZone")
    \o createLookupsForRelational("Duration") \o createLookupsForEquality("Duration")
    \o << <<lookupKey("Duration", "+", "Duration"), "Duration">>,
          <<lookupKey("Duration", "-", "Duration"), "Duration">>,
          <<lookupKey("Duration", "*", "Number"), "Duration">>,
          <<lookupKey("Number", "*", "Duration"), "Duration">>,
          <<lookupKey("Duration", "/", "Number"), "Duration">> >>
    \o createLookupsForRelational("Text") \o createLookupsForEquality("Text")
    \o << <<lookupKey("Text", "&", "Text"), "Text">> >>
    \o createLookupsForRelational("Binary") \o createLookupsForEquality("Binary")
    \o createLookupsForEquality("List")
    \o << <<lookupKey("List", "&", "List"), "List">> >>
    \o createLookupsForEquality("Record")
    \o << <<lookupKey("Record", "&", "Record"), "Record">> >>
    \o createLookupsForEquality("Table")
    \o << <<lookupKey("Table", "&", "Table"), "Table">> >>

\* A Map or a Set is kept as the sequence of its entries or members in
\* insertion order, which is the order its iterators yield.

\* The members of a set of indices, in ascending order.
Ascending(indices) ==
    [p \in 1..Cardinality(indices) |->
        CHOOSE i \in indices : Cardinality({j \in indices : j <= i}) = p]

\* The elements of seq at the given indices, in order.
Pick(seq, indices) == [p \in 1..Len(indices) |-> seq[indices[p]]]

\* seq without the elements that occurred earlier in it.
FirstOccurrences(seq) ==
    Pick(seq, Ascending({i \in 1..Len(seq) : \A j \in 1..(i - 1) : seq[j] # seq[i]}))

\* The first components of a sequence of pairs.
Firsts(pairs) == [i \in 1..Len(pairs) |-> pairs[i][1]]
Seconds(pairs) == [i \in 1..Len(pairs) |-> pairs[i][2]]

\* Map.get on a sequence of entries: <<>> for undefined.  The entry that
\* counts is the last one with the key.
PairsGet(map, key) ==
    LET at == {i \in 1..Len(map) : map[i][1] = key}
    IN  IF at = {} THEN <<>> ELSE <<map[SetMax(at)][2]>>

\* new Map(entries): a key keeps the place of its first entry and the value of
\* its last one.
WithLastValues(keys, entries) ==
    [p \in 1..Len(keys) |-> <<keys[p], PairsGet(entries, keys[p])[1]>>]

MapFromEntries(entries) == WithLastValues(FirstOccurrences(Firsts(entries)), entries)

Lookup == MapFromEntries(LookupEntries)

LookupKeys == Firsts(Lookup)

lastIndexOf_First(str, char) ==
    LET at == {i \in 1..Len(str) : SubSeq(str, i, i) = char}
    IN  IF at = {} THEN -1 ELSE (CHOOSE i \in at : \A j \in at : i <= j) - 1

\* String.lastIndexOf for a one-character needle: 0-based, -1 when absent.
lastIndexOf(str, char) ==
    LET at == {i \in 1..Len(str) : SubSeq(str, i, i) = char}
    IN  IF at = {} THEN -1 ELSE SetMax(at) - 1

\* String.slice(start, end) and String.slice(start) on 0-based indices.
slice(str, start, end) == SubSeq(str, start + 1, end)
sliceFrom(str, start) == SubSeq(str, start + 1, Len(str))

\* A reducer that collects what Lookup maps the key to.
potentialNewValue_ResultKind(key) == PairsGet(Lookup, key)[1]

\* What the reducer takes from one key of Lookup.
partialKey(key) == slice(key, 0, lastIndexOf(key, ","))
potentialNewValue(key) == sliceFrom(key, lastIndexOf(key, ",") + 1)

\* The reduce over a sequence of keys: every partial key, in the order of
\* its first key, with the Set of the last components of the keys it was cut
\* from.
WithValueSets(partialKeys, split) ==
    [p \in 1..Len(partialKeys) |->
        <<partialKeys[p],
          FirstOccurrences(Seconds(SelectSeq(split, LAMBDA pair : pair[1] = partialKeys[p])))>>]

Split(keys) == [i \in 1..Len(keys) |-> <<partialKey(keys[i]), potentialNewValue(keys[i])>>]

PartialLookupFrom(split) == WithValueSets(FirstOccurrences(Firsts(split)), split)

PartialLookup == PartialLookupFrom(Split(LookupKeys))

\* The outcome of an inspection: the value it returns or the error it throws.
ReturnsValue(value) == [threw |-> FALSE, value |-> value]

unionFields_LeftBiased(leftType, rightType) ==
    LET combinedFields ==
            [key \in DOMAIN leftType.fields \cup DOMAIN rightType.fields |->
                 IF key \in DOMAIN leftType.fields THEN leftType.fields[key]
                 ELSE rightType.fields[key]]
    IN  [leftType EXCEPT !.fields = combinedFields,
                         !.isNullable = leftType.isNullable /\ rightType.isNullable,
                         !.isOpen = leftType.isOpen \/ rightType.isOpen]

\* { ...leftType, fields, isNullable, isOpen } with the right side's entries set
\* over a copy of the left side's.
unionFields(leftType, rightType) ==
    LET combinedFields ==
            [key \in DOMAIN leftType.fields \cup DOMAIN rightType.fields |->
                 IF key \in DOMAIN rightType.fields THEN rightType.fields[key]
                 ELSE leftType.fields[key]]
    IN  [leftType EXCEPT !.fields = combinedFields,
                         !.isNullable = leftType.isNullable /\ rightType.isNullable,
                         !.isOpen = leftType.isOpen \/ rightType.isOpen]

inspectRecordOrTableUnion_KeepsOpen(leftType, rightType) ==
    IF leftType.kind # rightType.kind
    THEN Threw(InvariantError)
    ELSE IF leftType.maybeExtendedKind = <<>> /\ rightType.maybeExtendedKind = <<>>
    THEN ReturnsValue(primitiveTypeFactory(leftType.isNullable \/ rightType.isNullable,
                                           leftType.kind))
    ELSE IF \/ leftType.maybeExtendedKind # <<>> /\ rightType.maybeExtendedKind = <<>>
            \/ leftType.maybeExtendedKind = <<>> /\ rightType.maybeExtendedKind # <<>>
    THEN ReturnsValue(IF leftType.maybeExtendedKind # <<>> THEN leftType ELSE rightType)
    ELSE IF leftType.maybeExtendedKind = rightType.maybeExtendedKind
    THEN ReturnsValue(unionFields(leftType, rightType))
    ELSE Threw(InvariantError)

inspectRecordOrTableUnion(leftType, rightType) ==
    IF leftType.kind # rightType.kind
    THEN Threw(InvariantError)
    ELSE IF leftType.maybeExtendedKind = <<>> /\ rightType.maybeExtendedKind = <<>>
    THEN ReturnsValue(primitiveTypeFactory(leftType.isNullable \/ rightType.isNullable,
                                        leftType.kind))
    ELSE IF \/ leftType.maybeExtendedKind # <<>> /\ rightType.maybeExtendedKind = <<>>
            \/ leftType.maybeExtendedKind = <<>> /\ rightType.maybeExtendedKind # <<>>
    THEN LET extendedType == IF leftType.maybeExtendedKind # <<>> THEN leftType
                             ELSE rightType
         IN  ReturnsValue([extendedType EXCEPT !.isOpen = TRUE])
    ELSE IF leftType.maybeExtendedKind = rightType.maybeExtendedKind
    THEN ReturnsValue(unionFields(leftType, rightType))
    ELSE Threw(InvariantError)

\* A node's constantKind: undefined on a context, which has no such attribute.
MaybeConstantKind(node) ==
    IF "constantKind" \in DOMAIN node THEN <<node.constantKind>> ELSE <<>>

\* The partial branch raising where the partial index has no entry.
InspectPartial_FaultsWithoutEntry(leftType, operatorKind) ==
    LET key == partialLookupKey(leftType.kind, operatorKind)
        maybeAllowedTypeKinds == PairsGet(PartialLookup, key)
    IN  IF maybeAllowedTypeKinds = <<>>
        THEN Threw(InvariantError)
        ELSE IF Len(maybeAllowedTypeKinds[1]) = 1
        THEN ReturnsValue(primitiveTypeFactory(leftType.isNullable,
                                               maybeAllowedTypeKinds[1][1]))
        ELSE ReturnsValue(anyUnionFactory(
                 [i \in 1..Len(maybeAllowedTypeKinds[1]) |->
                     [kind |-> maybeAllowedTypeKinds[1][i],
                      maybeExtendedKind |-> <<>>,
                      isNullable |-> TRUE]]))

\* The branch for '1 +': the operator is known and the right operand is not.
InspectPartial(leftType, operatorKind) ==
    LET key == partialLookupKey(leftType.kind, operatorKind)
        maybeAllowedTypeKinds == PairsGet(PartialLookup, key)
    IN  IF maybeAllowedTypeKinds = <<>>
        THEN ReturnsValue(NoneInstance)
        ELSE IF Len(maybeAllowedTypeKinds[1]) = 1
        THEN ReturnsValue(primitiveTypeFactory(leftType.isNullable,
                                               maybeAllowedTypeKinds[1][1]))
        ELSE ReturnsValue(anyUnionFactory(
                 [i \in 1..Len(maybeAllowedTypeKinds[1]) |->
                     [kind |-> maybeAllowedTypeKinds[1][i],
                      maybeExtendedKind |-> <<>>,
                      isNullable |-> TRUE]]))

InspectComplete_NullableIfBoth(leftType, operatorKind, rightType) ==
    LET key == lookupKey(leftType.kind, operatorKind, rightType.kind)
        maybeResultTypeKind == PairsGet(Lookup, key)
    IN  IF maybeResultTypeKind = <<>>
        THEN ReturnsValue(NoneInstance)
        ELSE IF operatorKind = "&" /\ maybeResultTypeKind[1] \in {"Record", "Table"}
        THEN inspectRecordOrTableUnion(leftType, rightType)
        ELSE ReturnsValue(primitiveTypeFactory(leftType.isNullable /\ rightType.isNullable,
                                               maybeResultTypeKind[1]))

\* The branch for '1 + 1': both operands and the operator are known.
InspectComplete(leftType, operatorKind, rightType) ==
    LET key == lookupKey(leftType.kind, operatorKind, rightType.kind)
        maybeResultTypeKind == PairsGet(Lookup, key)
    IN  IF maybeResultTypeKind = <<>>
        THEN ReturnsValue(NoneInstance)
        ELSE IF operatorKind = "&" /\ maybeResultTypeKind[1] \in {"Record", "Table"}
        THEN inspectRecordOrTableUnion(leftType, rightType)
        ELSE ReturnsValue(primitiveTypeFactory(leftType.isNullable \/ rightType.isNullable,
                                               maybeResultTypeKind[1]))

inspectTypeTBinOpExpression_UnknownWithoutOperator(children) ==
    LET maybeLeft == IF Len(children) >= 1 THEN <<children[1]>> ELSE <<>>
        maybeOperatorKind ==
            IF Len(children) < 2 \/ children[2].kind = "Context" THEN <<>>
            ELSE MaybeConstantKind(children[2].node)
        maybeRight == IF Len(children) >= 3 THEN <<children[3]>> ELSE <<>>
    IN  IF maybeLeft = <<>> \/ maybeOperatorKind = <<>>
        THEN ReturnsValue(UnknownInstance)
        ELSE IF maybeRight = <<>> \/ maybeRight[1].kind = "Context"
        THEN InspectPartial(inspectXor(maybeLeft[1]), maybeOperatorKind[1])
        ELSE InspectComplete(inspectXor(maybeLeft[1]), maybeOperatorKind[1],
                             inspectXor(maybeRight[1]))

\* children is what assertIterChildrenXor yields for the node: at most the
\* left operand, the operator constant and the right operand, in that order.
inspectTypeTBinOpExpression(children) ==
    LET maybeLeft == IF Len(children) >= 1 THEN <<children[1]>> ELSE <<>>
        maybeOperatorKind ==
            IF Len(children) < 2 \/ children[2].kind = "Context" THEN <<>>
            ELSE MaybeConstantKind(children[2].node)
        maybeRight == IF Len(children) >= 3 THEN <<children[3]>> ELSE <<>>
    IN  IF maybeLeft = <<>>
        THEN ReturnsValue(UnknownInstance)
        ELSE IF maybeOperatorKind = <<>>
        THEN ReturnsValue(inspectXor(maybeLeft[1]))
        ELSE IF maybeRight = <<>> \/ maybeRight[1].kind = "Context"
        THEN InspectPartial(inspectXor(maybeLeft[1]), maybeOperatorKind[1])
        ELSE InspectComplete(inspectXor(maybeLeft[1]), maybeOperatorKind[1],
                             inspectXor(maybeRight[1]))

\* ---------------------------------------------- inferring over any children

FieldNames == {<<"a", "b", "c">>[i] : i \in 1..MaxFields}

FieldTypes == {primitiveTypeFactory(FALSE, "Number"), primitiveTypeFactory(FALSE, "Text")}

FieldMaps(names) == UNION {[keys -> FieldTypes] : keys \in SUBSET names}

PrimitiveTypes(kinds) == {primitiveTypeFactory(isNullable, kind) :
                             isNullable \in BOOLEAN, kind \in kinds}

DefinedTypes(names) ==
    {[kind |-> pair[1], maybeExtendedKind |-> <<pair[2]>>, isNullable |-> isNullable,
      fields |-> fields, isOpen |-> isOpen] :
        pair \in {<<"Record", "DefinedRecord">>, <<"Table", "DefinedTable">>},
        isNullable \in BOOLEAN, fields \in FieldMaps(names), isOpen \in BOOLEAN}

\* The operands of a binary operation: finished nodes of every type, and
\* contexts, whose type is what has been inferred of them so far.
OperandInputs ==
    {[kind |-> "Ast", node |-> [kind |-> "LiteralExpression"], type |-> type] :
        type \in PrimitiveTypes(TypeKinds) \cup DefinedTypes({"a"} \cap FieldNames)}
    \cup {[kind |-> "Context", node |-> [kind |-> "LiteralExpression"], type |-> type] :
             type \in PrimitiveTypes(TypeKinds)}

\* The operator child: a finished constant, or the context opened for it.
OperatorInputs ==
    {[kind |-> "Ast", node |-> [kind |-> "Constant", constantKind |-> operatorKind]] :
        operatorKind \in TBinOpExpressionOperators}
    \cup {[kind |-> "Context", node |-> [kind |-> "Constant"]]}

\* The arrays of children a binary operation can have.
ChildrenInputs(operands, operators) ==
    {<<>>} \cup {<<left>> : left \in operands}
    \cup {<<left, operator>> : left \in operands, operator \in operators}
    \cup {<<left, operator, right>> :
             left \in operands, operator \in operators, right \in operands}

InitInspection ==
    /\ lexerSnapshot = NewLexerSnapshot(0)
    /\ tokenIndex = 0
    /\ maybeCurrentToken = <<>>
    /\ maybeCurrentTokenKind = <<>>
    /\ contextState = ParseContextUtils_newState
    /\ maybeCurrentContextNode = <<>>
    /\ backups = <<>>
    /\ history = <<>>
    /\ pc = "inspect"
    /\ readOutcome = [pending |-> TRUE]
    /\ result = [kind |-> "None"]
    /\ lastOp = "none"
    /\ ancestry = [threw |-> FALSE, value |-> <<>>]
    /\ nth = [fn |-> "none"]
    /\ inspection = [fn |-> "none"]

Inspect(call) ==
    /\ pc = "inspect"
    /\ inspection' = call
    /\ pc' = "answered"
    /\ lastOp' = call.fn
    /\ UNCHANGED <<lexerSnapshot, tokenIndex, maybeCurrentToken, maybeCurrentTokenKind,
                   contextState, maybeCurrentContextNode, backups, history, readOutcome, result,
                   ancestry, nth>>

InspectTypeTBinOpExpression(children) ==
    Inspect([fn |-> "inspectTypeTBinOpExpression", children |-> children,
             result |-> inspectTypeTBinOpExpression(children)])

NextTypeTBinOpExpression ==
    /\ pc = "inspect"
    /\ \E children \in ChildrenInputs(OperandInputs, OperatorInputs) :
           InspectTypeTBinOpExpression(children)

SpecTypeTBinOpExpression == InitInspection /\ [][NextTypeTBinOpExpression]_vars

RecordOrTableInputs ==
    PrimitiveTypes({"Record", "Table"}) \cup DefinedTypes(FieldNames)

InspectRecordOrTableUnion(leftType, rightType) ==
    Inspect([fn |-> "inspectRecordOrTableUnion", leftType |-> leftType,
             rightType |-> rightType,
             result |-> inspectRecordOrTableUnion(leftType, rightType)])

NextRecordOrTableUnion ==
    /\ pc = "inspect"
    /\ \E leftType \in RecordOrTableInputs, rightType \in RecordOrTableInputs :
           InspectRecordOrTableUnion(leftType, rightType)

SpecRecordOrTableUnion == InitInspection /\ [][NextRecordOrTableUnion]_vars

\* -------------------------------------------------- autocomplete: keywords
\*
\* An ActiveNode is a record: leafKind, position (a code unit on one line),
\* ancestry (the leaf first) and maybeIdentifierUnderPosition.  A finished
\* leaf carries its tokenRange, and its literal where it has one.  A trailing
\* token is a record: data, positionStart and isInOrOnPosition.

ConjunctionKeywords == <<"and", "as", "is", "meta", "or">>

StartOfDocumentKeywords ==
    <<"each", "error", "false", "if", "let", "not", "null", "section", "true", "try", "type">>

TypeError == NewError("TypeError")

\* String.startsWith
startsWith(str, prefix) == Len(prefix) <= Len(str) /\ SubSeq(str, 1, Len(prefix)) = prefix

\* ArrayUtils.concatUnique: left, then the elements of right that are not in
\* it yet, each once.
concatUnique(left, right) ==
    left \o FirstOccurrences(
                SelectSeq(right, LAMBDA element : \A i \in 1..Len(left) : left[i] # element))

\* PositionUtils, on one line.  A bound that is included belongs to the token.
isAfterTokenPosition(position, tokenPosition, isBoundIncluded) ==
    IF isBoundIncluded THEN position > tokenPosition ELSE position >= tokenPosition

isBeforeTokenPosition(position, tokenPosition, isBoundIncluded) ==
    IF isBoundIncluded THEN position < tokenPosition ELSE position <= tokenPosition

isAfterAst(position, ast, isBoundIncluded) ==
    isAfterTokenPosition(position, ast.tokenRange.positionEnd, isBoundIncluded)

isBeforeAst(position, ast, isBoundIncluded) ==
    isBeforeTokenPosition(position, ast.tokenRange.positionStart, isBoundIncluded)

isInAst(position, ast, isLowerInclusive, isHigherInclusive) ==
    ~isBeforeAst(position, ast, isLowerInclusive) /\ ~isAfterAst(position, ast, isHigherInclusive)

\* A context is entered at its first token and has no end yet.
isInXor(position, xorNode, isLowerInclusive, isHigherInclusive) ==
    IF xorNode.kind = "Ast"
    THEN isInAst(position, xorNode.node, isLowerInclusive, isHigherInclusive)
    ELSE ~isBeforeTokenPosition(position, xorNode.node.positionStart, isLowerInclusive)

isInToken(position, token, isLowerInclusive, isHigherInclusive) ==
    /\ ~isBeforeTokenPosition(position, token.positionStart, isLowerInclusive)
    /\ ~isAfterTokenPosition(position, token.positionStart + Len(token.data), isHigherInclusive)

\* XorNodeUtils.isTUnaryType, on the node kinds leaves are drawn from.
isTUnaryType(xorNode) == xorNode.node.kind \in {"LiteralExpression", "UnaryExpression"}

\* ActiveNodeUtils.assertGetLeaf
assertGetLeaf(activeNode) == activeNode.ancestry[1]

\* Narrows the list to the keywords that begin with the trailing text.
autocompleteKeywordTrailingText(inspected, trailingToken, maybeAllowedKeywords) ==
    SelectSeq(inspected, LAMBDA keywordKind : startsWith(keywordKind, trailingToken.data))

autocompleteKeyword_filterRecommendations_Unfiltered(inspected, maybePositionName) ==
    inspected

autocompleteKeyword_filterRecommendations(inspected, maybePositionName) ==
    IF maybePositionName = <<>> THEN inspected
    ELSE SelectSeq(inspected, LAMBDA kind : startsWith(kind, maybePositionName[1]))

handleConjunctions_WhateverTheLeaf(activeNode, inspected, maybeTrailingToken) ==
    IF activeNode.leafKind # "AfterAstNode" /\ activeNode.leafKind # "ContextNode"
    THEN inspected
    ELSE IF maybeTrailingToken # <<>> /\ maybeTrailingToken[1].isInOrOnPosition
    THEN autocompleteKeywordTrailingText(inspected, maybeTrailingToken[1], <<>>)
    ELSE IF /\ maybeTrailingToken # <<>>
            /\ isAfterTokenPosition(activeNode.position,
                                    maybeTrailingToken[1].positionStart, FALSE)
    THEN inspected
    ELSE concatUnique(inspected, ConjunctionKeywords)

handleConjunctions(activeNode, inspected, maybeTrailingToken) ==
    IF activeNode.leafKind # "AfterAstNode" /\ activeNode.leafKind # "ContextNode"
    THEN inspected
    ELSE LET activeNodeLeaf == assertGetLeaf(activeNode)
         IN  IF maybeTrailingToken # <<>> /\ maybeTrailingToken[1].isInOrOnPosition
             THEN autocompleteKeywordTrailingText(inspected, maybeTrailingToken[1], <<>>)
             ELSE IF isTUnaryType(activeNodeLeaf)
             THEN IF /\ maybeTrailingToken # <<>>
                     /\ isAfterTokenPosition(activeNode.position,
                                             maybeTrailingToken[1].positionStart, FALSE)
                  THEN inspected
                  ELSE IF activeNodeLeaf.kind = "Ast"
                  THEN concatUnique(inspected, ConjunctionKeywords)
                  ELSE inspected
             ELSE inspected

\* routines[ancestryIndex] is what the routine chosen by the parent's kind at
\* that index returns: <<>> for undefined, <<keywords>> for a list.
RECURSIVE TraverseFrom(_, _, _)
TraverseFrom(ancestryIndex, numNodes, routines) ==
    IF ancestryIndex >= numNodes THEN <<>>
    ELSE IF routines[ancestryIndex] # <<>> THEN routines[ancestryIndex][1]
    ELSE TraverseFrom(ancestryIndex + 1, numNodes, routines)

autocompleteKeyword_traverseAncestors(activeNode, routines) ==
    TraverseFrom(1, Len(activeNode.ancestry), routines)

\* ancestry[index].node.kind: a TypeError when ancestry[index] is undefined.
NodeKindAt(xorNodes, index) ==
    IF ArrayAt(xorNodes, index) = <<>> THEN Threw(TypeError)
    ELSE ReturnsValue(ArrayAt(xorNodes, index)[1].node.kind)

\* The answer is the record [threw, value], value being <<>> for undefined.
maybeEdgeCase(activeNode, maybeTrailingToken) ==
    LET xorNodes == activeNode.ancestry
        leaf == ArrayAt(xorNodes, 0)[1]
        parent == ArrayAt(xorNodes, 1)[1]
    IN  IF /\ maybeTrailingToken = <<>>
           /\ Len(xorNodes) = 2
           /\ leaf.kind = "Ast"
           /\ leaf.node.kind = "Identifier"
           /\ parent.node.kind = "IdentifierExpression"
        THEN ReturnsValue(<<SelectSeq(StartOfDocumentKeywords,
                                      LAMBDA keywordKind :
                                          startsWith(keywordKind, leaf.node.literal))>>)
        ELSE IF /\ leaf.kind = "Ast"
                /\ leaf.node.kind = "Identifier"
                /\ parent.node.kind = "Parameter"
                /\ isAfterAst(activeNode.position, leaf.node, TRUE)
        THEN ReturnsValue(<< <<"as">> >>)
        ELSE IF /\ maybeTrailingToken # <<>>
                /\ maybeTrailingToken[1].data = "a"
                /\ leaf.kind = "Context"
                /\ leaf.node.kind = "Constant"
                /\ parent.node.kind = "ParameterList"
        THEN IF NodeKindAt(xorNodes, 2).threw THEN NodeKindAt(xorNodes, 2)
             ELSE IF NodeKindAt(xorNodes, 2).value = "FunctionExpression"
             THEN ReturnsValue(<< <<"as">> >>)
             ELSE ReturnsValue(<<>>)
        ELSE ReturnsValue(<<>>)

MaybePositionName(activeNode) ==
    LET ancestryLeaf == assertGetLeaf(activeNode)
    IN  IF isInXor(activeNode.position, ancestryLeaf, FALSE, TRUE)
        THEN IF activeNode.maybeIdentifierUnderPosition # <<>>
             THEN <<activeNode.maybeIdentifierUnderPosition[1].literal>>
             ELSE IF /\ ancestryLeaf.kind = "Ast"
                     /\ ancestryLeaf.node.kind = "LiteralExpression"
                     /\ ancestryLeaf.node.literalKind \in {"Logical", "Null"}
             THEN <<ancestryLeaf.node.literal>>
             ELSE <<>>
        ELSE <<>>

autocompleteKeyword(activeNode, maybeTrailingToken, routines) ==
    LET maybePositionName == MaybePositionName(activeNode)
    IN  IF Len(activeNode.ancestry) < 2
        THEN ReturnsValue(autocompleteKeyword_filterRecommendations(
                 handleConjunctions(activeNode, <<>>, maybeTrailingToken), maybePositionName))
        ELSE LET maybeEarlyExitInspected == maybeEdgeCase(activeNode, maybeTrailingToken)
             IN  IF maybeEarlyExitInspected.threw
                 THEN maybeEarlyExitInspected
                 ELSE IF maybeEarlyExitInspected.value # <<>>
                 THEN ReturnsValue(maybeEarlyExitInspected.value[1])
                 ELSE ReturnsValue(autocompleteKeyword_filterRecommendations(
                          handleConjunctions(
                              activeNode,
                              autocompleteKeyword_traverseAncestors(activeNode, routines),
                              maybeTrailingToken),
                          maybePositionName))

\* --------------------------------------------- autocomplete: primitive types

PrimitiveTypeConstantKinds ==
    <<"action", "any", "anynonnull", "binary", "date", "datetime", "datetimezone",
      "duration", "function", "list", "logical", "none", "null", "number", "record",
      "table", "text", "time", "type">>

autocompletePrimitiveType_filterRecommendations_Unfiltered(inspected, maybeTrailingToken) ==
    inspected

autocompletePrimitiveType_filterRecommendations(inspected, maybeTrailingToken) ==
    IF maybeTrailingToken = <<>> THEN inspected
    ELSE SelectSeq(inspected,
                   LAMBDA primitiveTypeConstantKind :
                       startsWith(primitiveTypeConstantKind, maybeTrailingToken[1].data))

\* The loop of traverseAncestors from one index on.
RECURSIVE TraverseTypesFrom(_, _)
TraverseTypesFrom(index, activeNode) ==
    LET xorNodes == activeNode.ancestry
        parent == ArrayAt(xorNodes, index)[1]
        maybeChild == ArrayAt(xorNodes, index - 1)
        maybeGrandchild == maybeNthPreviousXor(xorNodes, index, 2, <<>>)
        maybeGreatGreatGrandchild == maybeNthPreviousXor(xorNodes, index, 3, <<>>)
        continue == TraverseTypesFrom(index + 1, activeNode)
    IN  IF index >= Len(xorNodes) THEN <<>>
        ELSE IF parent.node.kind = "TypePrimaryType"
        THEN IF maybeChild = <<>>
             THEN PrimitiveTypeConstantKinds
             ELSE IF /\ maybeChild[1].node.maybeAttributeIndex = <<0>>
                     /\ maybeChild[1].kind = "Ast"
                     /\ isAfterAst(activeNode.position, maybeChild[1].node, TRUE)
             THEN PrimitiveTypeConstantKinds
             ELSE continue
        ELSE IF /\ parent.node.kind = "Parameter"
                /\ maybeNthNextXor(xorNodes, index, 4, <<{"FunctionExpression"}>>) # <<>>
        THEN IF maybeGrandchild = <<>>
             THEN continue
             ELSE IF /\ maybeGrandchild[1].kind = "Ast"
                     /\ maybeGrandchild[1].node.kind = "Constant"
                     /\ maybeGrandchild[1].node.constantKind = "as"
                     /\ isAfterAst(activeNode.position, maybeGrandchild[1].node, TRUE)
             THEN PrimitiveTypeConstantKinds
             ELSE IF maybeGrandchild[1].node.kind = "NullablePrimitiveType"
             THEN IF /\ maybeGreatGreatGrandchild # <<>>
                     /\ maybeGreatGreatGrandchild[1].node.kind = "PrimitiveType"
                  THEN PrimitiveTypeConstantKinds
                  ELSE continue
             ELSE continue
        ELSE continue

autocompletePrimitiveType_traverseAncestors_SkipsLeaf(activeNode) ==
    IF Len(activeNode.ancestry) = 0 THEN <<>> ELSE TraverseTypesFrom(1, activeNode)

autocompletePrimitiveType_traverseAncestors(activeNode) ==
    IF Len(activeNode.ancestry) = 0 THEN <<>> ELSE TraverseTypesFrom(0, activeNode)

autocompletePrimitiveType(activeNode, maybeTrailingToken) ==
    ReturnsValue(autocompletePrimitiveType_filterRecommendations(
        autocompletePrimitiveType_traverseAncestors(activeNode), maybeTrailingToken))

\* ------------------------------------------- autocompleting any active node

\* Every finished node drawn below spans the code units 0 to MaxLeafLength.
LeafTokenRange == [positionStart |-> 0, positionEnd |-> MaxLeafLength]

AstLeaf(fields) ==
    XorAst(fields @@ [tokenRange |-> LeafTokenRange, maybeAttributeIndex |-> <<0>>])

ContextLeaf(nodeKind) ==
    XorContext([kind |-> nodeKind, positionStart |-> 0, maybeAttributeIndex |-> <<0>>])

KeywordLeafInputs ==
    {AstLeaf([kind |-> "Identifier", literal |-> literal]) : literal \in {"l", "t"}}
    \cup {AstLeaf([kind |-> "LiteralExpression", literalKind |-> pair[1], literal |-> pair[2]]) :
             pair \in {<<"Logical", "true">>, <<"Null", "null">>, <<"Numeric", "1">>}}
    \cup {AstLeaf([kind |-> "Constant", constantKind |-> "="])}
    \cup {ContextLeaf(nodeKind) : nodeKind \in {"Constant", "LiteralExpression"}}

KeywordParentKinds ==
    {"IdentifierExpression", "Parameter", "ParameterList", "FunctionExpression", "LetExpression"}

Positions == 1..(MaxLeafLength + 1)

\* The identifier under the caret: the leaf when it is a finished identifier
\* and the caret is in it.
findIdentifierUnderPosition(position, leaf) ==
    IF /\ leaf.kind = "Ast"
       /\ leaf.node.kind = "Identifier"
       /\ isInAst(position, leaf.node, FALSE, TRUE)
    THEN <<leaf.node>> ELSE <<>>

\* A context leaf is a ContextNode; a finished leaf has the caret on it or
\* after it.
LeafKinds_(leaf) == IF leaf.kind = "Context" THEN {"ContextNode"}
                    ELSE {"OnAstNode", "AfterAstNode"}

ActiveNodes(ancestries) ==
    {[leafKind |-> leafKind, position |-> position, ancestry |-> xorNodes,
      maybeIdentifierUnderPosition |-> findIdentifierUnderPosition(position, xorNodes[1])] :
        <<xorNodes, position, leafKind>> \in
            {triple \in ancestries \X Positions \X {"OnAstNode", "AfterAstNode", "ContextNode"} :
                triple[3] \in LeafKinds_(triple[1][1])}}

KeywordAncestries ==
    {<<leaf>> : leaf \in KeywordLeafInputs}
    \cup {<<leaf, XorContext([kind |-> parentKind])>> :
             leaf \in KeywordLeafInputs, parentKind \in KeywordParentKinds}
    \cup {<<leaf, [kind |-> tag, node |-> [kind |-> parentKind]],
            XorContext([kind |-> grandparentKind])>> :
             leaf \in KeywordLeafInputs, tag \in {"Ast", "Context"},
             parentKind \in KeywordParentKinds, grandparentKind \in KeywordParentKinds}

\* A trailing token of one code unit that starts at one of the given places.
TrailingTokens(position, starts) ==
    {<<>>} \cup
    {<<[data |-> data, positionStart |-> positionStart,
        isInOrOnPosition |->
            isInToken(position, [data |-> data, positionStart |-> positionStart], FALSE, TRUE)]>> :
        data \in {"a", "x"}, positionStart \in starts}

\* What the routines of the ancestry walk answer, per ancestryIndex.
RoutineAnswers(numNodes) ==
    [1..(numNodes - 1) -> {<<>>, << <<"in">> >>, << <<"or", "in">> >>}]

AutocompleteKeyword(activeNode, maybeTrailingToken, routines) ==
    Inspect([fn |-> "autocompleteKeyword", activeNode |-> activeNode,
             maybeTrailingToken |-> maybeTrailingToken, routines |-> routines,
             result |-> autocompleteKeyword(activeNode, maybeTrailingToken, routines)])

TypeLeafwardInputs ==
    {AstLeaf([kind |-> "Constant", constantKind |-> "as"]),
     XorAst([kind |-> "Constant", constantKind |-> "type", tokenRange |-> LeafTokenRange,
             maybeAttributeIndex |-> <<1>>]),
     XorAst([kind |-> "PrimitiveType", tokenRange |-> LeafTokenRange,
             maybeAttributeIndex |-> <<1>>]),
     ContextLeaf("Constant"), ContextLeaf("TypePrimaryType"), ContextLeaf("PrimitiveType"),
     ContextLeaf("NullablePrimitiveType"), ContextLeaf("Parameter")}

TypeRootwardInputs == {ContextLeaf("Csv"), ContextLeaf("FunctionExpression")}

\* Ancestries of up to MaxAncestry nodes of the leafward kinds, then possibly
\* a Parameter (so that a parameter has up to three nodes below it), followed
\* by up to MaxRootward nodes that lead up to a function expression.
TypeAncestries ==
    {leafward \o parameter \o rootward :
        leafward \in SeqsUpTo(TypeLeafwardInputs, MaxAncestry) \ {<<>>},
        parameter \in {<<>>, <<ContextLeaf("Parameter")>>},
        rootward \in SeqsUpTo(TypeRootwardInputs, MaxRootward)}

AutocompletePrimitiveType(activeNode, maybeTrailingToken) ==
    Inspect([fn |-> "autocompletePrimitiveType", activeNode |-> activeNode,
             maybeTrailingToken |-> maybeTrailingToken,
             result |-> autocompletePrimitiveType(activeNode, maybeTrailingToken)])

NextAutocomplete ==
    \/ /\ pc = "inspect"
       /\ \E activeNode \in ActiveNodes(KeywordAncestries) :
              \E maybeTrailingToken \in
                     TrailingTokens(activeNode.position,
                                    (activeNode.position - 1)..(activeNode.position + 1)),
                 routines \in RoutineAnswers(Len(activeNode.ancestry)) :
                  AutocompleteKeyword(activeNode, maybeTrailingToken, routines)
    \/ /\ pc = "inspect"
       /\ \E activeNode \in ActiveNodes(TypeAncestries) :
              \E maybeTrailingToken \in
                     TrailingTokens(activeNode.position, {activeNode.position - 1}) :
                  AutocompletePrimitiveType(activeNode, maybeTrailingToken)

SpecAutocomplete == InitInspection /\ [][NextAutocomplete]_vars

\* ----------------------------------------------------------------- claims

\* C1: applying a backup b after any sequence of operations that started after
\* b was taken, nested backups and rollbacks included, leaves the token index,
\* the id counter, the AST nodes with their payloads, the set of context ids,
\* parentIdById and childIdsById (order included) as they were when b was
\* taken.  Stated for the sequences that leave open every context that was
\* open when b was taken.
C1_RollbackRestoresView ==
    [][(/\ lastOp' = "applyFastStateBackup"
        /\ pc' = "read"
        /\ Head(history).at.contextIds \subseteq ContextIds)
           => View' = Head(history).at]_vars

\* C2: every live node with a parent is listed among its parent's children, and
\* every id listed among the children of p is a live node whose parent is p.
C2_ParentChildSymmetry ==
    /\ \A c \in LiveIds \cap DOMAIN Collection.parentIdById :
           \E i \in DOMAIN ChildIds(Collection, Collection.parentIdById[c]) :
               ChildIds(Collection, Collection.parentIdById[c])[i] = c
    /\ \A p \in DOMAIN Collection.childIdsById :
           \A i \in DOMAIN Collection.childIdsById[p] :
               /\ Collection.childIdsById[p][i] \in LiveIds
               /\ MapGet(Collection.parentIdById, Collection.childIdsById[p][i]) = <<p>>

\* maybeCurrentContextNode is undefined or a node of contextNodeById.
CurrentContextIsOpen ==
    maybeCurrentContextNode = <<>> \/ maybeCurrentContextNode[1] \in ContextIds

\* C3 as stated: in every reachable state maybeCurrentContextNode is undefined
\* or a node of contextNodeById.
C3_CurrentContextAlwaysOpen == pc \in {"read", "done"} => CurrentContextIsOpen

\* C3: in every reachable state but the one an applyFastStateBackup that raised
\* leaves, maybeCurrentContextNode is undefined or a node of contextNodeById.
\* An applyFastStateBackup that returns leaves it the backup's
\* maybeContextNodeId (undefined included); one that raises, because that
\* context is open no more, leaves it where the discarded read left it.
C3_CurrentContextAfterRollback ==
    /\ [](~(lastOp = "applyFastStateBackup" /\ pc = "done") => CurrentContextIsOpen)
    /\ [][lastOp' = "applyFastStateBackup" =>
             IF pc' = "read"
             THEN /\ maybeCurrentContextNode' = Head(backups).maybeContextNodeId
                  /\ CurrentContextIsOpen'
             ELSE /\ maybeCurrentContextNode' = maybeCurrentContextNode
                  /\ Head(backups).maybeContextNodeId # <<>>
                  /\ Head(backups).maybeContextNodeId[1] \notin ContextIds']_vars

\* C3: a rollback returned and made a context that stayed open current again,
\* away from the context the discarded read had reached.
C3_Witness ==
    /\ lastOp = "applyFastStateBackup"
    /\ pc = "read"
    /\ maybeCurrentContextNode # <<>>
    /\ maybeCurrentContextNode[1] \in ContextIds
    /\ maybeCurrentContextNode[1] < contextState.idCounter

\* The ids above n up to the id counter.
IdsSince(n) == {id \in 1..contextState.idCounter : id > n}

\* C4: every live id is at most idCounter, no id is a key of both astNodeById
\* and contextNodeById, and the ids created since a pending backup was taken
\* are exactly those above the backup's idCounter up to the current idCounter.
C4_IdsAreFresh ==
    /\ \A id \in LiveIds : id >= 1 /\ id <= contextState.idCounter
    /\ AstIds \cap ContextIds = {}
    /\ \A i \in DOMAIN backups :
           /\ history[i].created = IdsSince(backups[i].contextStateIdCounter)
           /\ \A id \in LiveIds : id > backups[i].contextStateIdCounter
                                      => id \in history[i].created

\* C4: two contexts were created since a pending backup, one of them ended.
C4_Witness ==
    /\ backups # <<>>
    /\ Cardinality(history[1].created) >= 2
    /\ history[1].created \cap AstIds # {}
    /\ history[1].created \cap ContextIds # {}

\* C5: tryRead returns, never throws.  When parser.read throws an inner parse
\* error the result is err(ParseError) holding that error and the very state
\* the parser was mutating; when it throws anything else the result is
\* err(CommonError) whose inner error is a CancellationError, an InvariantError
\* or an UnknownError, a CommonError thrown being returned as it is.
C5_TryReadConvertsFaults ==
    pc = "done" =>
        /\ result.kind \in {"Ok", "Err"}
        /\ readOutcome.threw =>
               /\ result.kind = "Err"
               /\ IF readOutcome.error.kind \in InnerParseErrorKinds
                  THEN /\ result.error.kind = "ParseError"
                       /\ result.error.innerError = <<readOutcome.error>>
                       /\ result.error.state = State
                  ELSE /\ result.error.kind = "CommonError"
                       /\ result.error.innerError # <<>>
                       /\ result.error.innerError[1].kind
                              \in {"CancellationError", "InvariantError", "UnknownError"}
                       /\ readOutcome.error.kind = "CommonError" => result.error = readOutcome.error
                       /\ readOutcome.error.kind \in InnerCommonErrorKinds
                              => result.error.innerError = <<readOutcome.error>>
                       /\ readOutcome.error.kind \notin InnerCommonErrorKinds \cup {"CommonError"}
                              => result.error.innerError[1] = UnknownError(readOutcome.error)

\* C5: parser.read threw a CommonError while nodes were in the map, and tryRead
\* returned it.
C5_Witness ==
    /\ pc = "done"
    /\ readOutcome.threw
    /\ readOutcome.error.kind = "CommonError"
    /\ result.kind = "Err"
    /\ LiveIds # {}

\* C6 as stated: a CancellationError thrown under parser.read comes back from
\* tryRead as a ParseError carrying the partial state.
C6_CancellationIsParseError ==
    (pc = "done" /\ readOutcome.threw /\ readOutcome.error.kind = "CancellationError")
        => result.kind = "Err" /\ result.error.kind = "ParseError"

\* C6: a CancellationError thrown under parser.read comes back from tryRead as
\* err(CommonError) whose inner error is that CancellationError; the error
\* carries no parser state.
C6_CancellationIsCommonError ==
    (pc = "done" /\ readOutcome.threw /\ readOutcome.error.kind = "CancellationError")
        => /\ result = errFactory(CommonError(readOutcome.error))
           /\ "state" \notin DOMAIN result.error

\* C6: parser.read was cancelled after it had read a token and built a node.
C6_Witness ==
    /\ pc = "done"
    /\ readOutcome.threw
    /\ readOutcome.error.kind = "CancellationError"
    /\ tokenIndex > 0
    /\ AstIds # {}

\* C7: when tryRead returns ok there is no open context, tokenIndex is the
\* number of tokens, and the returned nodeIdMapCollection and leafNodeIds are
\* those of state.contextState.
C7_OkIsComplete ==
    (pc = "done" /\ result.kind = "Ok") =>
        /\ maybeCurrentContextNode = <<>>
        /\ tokenIndex = Len(lexerSnapshot.tokens)
        /\ result.value.nodeIdMapCollection = contextState.nodeIdMapCollection
        /\ result.value.leafNodeIds = contextState.leafNodeIds
        /\ result.value.state = State

\* C7: tryRead returned ok with the root parser.read built.
C7_Witness ==
    /\ pc = "done"
    /\ result.kind = "Ok"
    /\ ~readOutcome.threw
    /\ result.value.root \in AstIds

\* C8: endContext with the AST node built from the current context removes the
\* context's id from contextNodeById, adds the node under the same id to
\* astNodeById, makes the parent context (if its parent is an open context)
\* current, and leaves parentIdById, childIdsById and every other node as they
\* were.
C8_EndContextPromotes ==
    [][(lastOp' = "endContext" /\ pc' = "read") =>
          LET i == maybeCurrentContextNode[1]
              old == contextState.nodeIdMapCollection
              new == contextState'.nodeIdMapCollection
          IN  /\ i \in DOMAIN old.contextNodeById
              /\ DOMAIN new.contextNodeById = DOMAIN old.contextNodeById \ {i}
              /\ DOMAIN new.astNodeById = DOMAIN old.astNodeById \cup {i}
              /\ new.astNodeById[i].id = i
              /\ maybeCurrentContextNode' =
                     IF /\ i \in DOMAIN old.parentIdById
                        /\ old.parentIdById[i] \in DOMAIN new.contextNodeById
                     THEN <<old.parentIdById[i]>>
                     ELSE <<>>
              /\ CurrentContextIsOpen'
              /\ new.parentIdById = old.parentIdById
              /\ new.childIdsById = old.childIdsById
              /\ \A j \in DOMAIN old.astNodeById : new.astNodeById[j] = old.astNodeById[j]
              /\ \A j \in DOMAIN new.contextNodeById :
                     new.contextNodeById[j] = old.contextNodeById[j]]_vars

\* C8: a context with a parent and a child was ended; its parent is current.
C8_Witness ==
    /\ lastOp = "endContext"
    /\ pc = "read"
    /\ maybeCurrentContextNode # <<>>
    /\ \E i \in AstIds :
           /\ MapGet(Collection.parentIdById, i) = maybeCurrentContextNode
           /\ ChildIds(Collection, i) # <<>>

\* C9: assertGetAncestry(map, id) of a node of the map returns the chain leaf
\* first: element 0 is the node with the given id, element k+1 is the node
\* whose id is parentIdById of element k, the last element has no entry in
\* parentIdById, and each element is tagged Ast or Context after the map that
\* holds it.
C9_AncestryLeafFirst ==
    (pc = "inspected" /\ ancestry.rootId \in LiveIds) =>
        LET xorNodes == ancestry.value
            parentIdById == Collection.parentIdById
        IN  /\ ~ancestry.threw
            /\ ~ancestry.diverges
            /\ Len(xorNodes) >= 1
            /\ xorNodes[1].node.id = ancestry.rootId
            /\ \A k \in 1..(Len(xorNodes) - 1) :
                   MapGet(parentIdById, xorNodes[k].node.id) = <<xorNodes[k + 1].node.id>>
            /\ xorNodes[Len(xorNodes)].node.id \notin DOMAIN parentIdById
            /\ \A k \in 1..Len(xorNodes) :
                   \/ /\ xorNodes[k].kind = "Ast"
                      /\ xorNodes[k].node.id \in AstIds
                      /\ xorNodes[k].node = Collection.astNodeById[xorNodes[k].node.id]
                   \/ /\ xorNodes[k].kind = "Context"
                      /\ xorNodes[k].node.id \in ContextIds
                      /\ xorNodes[k].node = Collection.contextNodeById[xorNodes[k].node.id]

\* C9: the ancestry of an AST node two levels below an open root was taken.
C9_Witness ==
    /\ pc = "inspected"
    /\ ~ancestry.threw
    /\ Len(ancestry.value) = 3
    /\ ancestry.value[1].kind = "Ast"
    /\ ancestry.value[3].kind = "Context"

\* C10: maybeNthPreviousXor and maybeNthNextXor return, for any ancestry, index
\* i and offset n, the node at i-n respectively i+n when that index exists and
\* either no kind list is given or the node's kind is in the list, and absent
\* otherwise.
C10_NthXorIsTotal ==
    pc = "navigated" =>
        LET xorNodes == ancestry.value
            j == IF nth.fn = "maybeNthPreviousXor"
                 THEN nth.ancestryIndex - nth.n
                 ELSE nth.ancestryIndex + nth.n
            found == /\ j >= 0
                     /\ j < Len(xorNodes)
                     /\ \/ nth.maybeAllowedNodeKinds = <<>>
                        \/ xorNodes[j + 1].node.kind \in nth.maybeAllowedNodeKinds[1]
        IN  /\ nth.fn \in {"maybeNthPreviousXor", "maybeNthNextXor"}
            /\ nth.result = IF found THEN <<xorNodes[j + 1]>> ELSE <<>>

\* C10: maybeNthPreviousXor reached a node whose kind the list does not allow
\* and returned absent.
C10_Witness ==
    /\ pc = "navigated"
    /\ nth.fn = "maybeNthPreviousXor"
    /\ nth.n > 0
    /\ nth.ancestryIndex - nth.n >= 0
    /\ nth.ancestryIndex - nth.n < Len(ancestry.value)
    /\ nth.maybeAllowedNodeKinds # <<>>
    /\ ancestry.value[nth.ancestryIndex - nth.n + 1].node.kind \notin nth.maybeAllowedNodeKinds[1]
    /\ nth.result = <<>>

\* C11.  Binary-op type inference on an incomplete node: with no first child
\* the result is Unknown; with a first child and the operator absent or still
\* a context, the result is the type inferred of the left child, whatever the
\* third child is.
C11_IncompleteYieldsLeft ==
    inspection.fn = "inspectTypeTBinOpExpression" =>
        LET children == inspection.children
        IN  /\ Len(children) = 0 => inspection.result = ReturnsValue(UnknownInstance)
            /\ (Len(children) >= 1 /\ (Len(children) = 1 \/ children[2].kind = "Context")) =>
                   inspection.result = ReturnsValue(children[1].type)

\* A left operand of a nullable number, the operator still a context and a
\* finished right operand: the answer is the left operand's type.
C11_Witness ==
    /\ inspection.fn = "inspectTypeTBinOpExpression"
    /\ Len(inspection.children) = 3
    /\ inspection.children[2].kind = "Context"
    /\ inspection.children[3].kind = "Ast"
    /\ inspection.children[1].type = primitiveTypeFactory(TRUE, "Number")
    /\ inspection.result = ReturnsValue(primitiveTypeFactory(TRUE, "Number"))

\* C12.  Partial binary-op inference: the operator is a finished constant and
\* the right child is absent or still a context.  With P the set of the last
\* components of the full table's keys that have the left type's kind and the
\* operator: if P has one kind the result is the primitive of that kind with
\* the left type's isNullable, and if P has several kinds the result is an
\* AnyUnion with one member per kind of P, each marked nullable.
C12_PartialLookup ==
    (/\ inspection.fn = "inspectTypeTBinOpExpression"
     /\ Len(inspection.children) >= 2
     /\ inspection.children[2].kind = "Ast"
     /\ (Len(inspection.children) = 2 \/ inspection.children[3].kind = "Context")) =>
        LET leftType == inspection.children[1].type
            operatorKind == inspection.children[2].node.constantKind
            P == {kind \in TypeKinds :
                     \E i \in 1..Len(LookupKeys) :
                         LookupKeys[i] = lookupKey(leftType.kind, operatorKind, kind)}
            members == inspection.result.value.unionedTypePairs
        IN  /\ ~inspection.result.threw
            /\ Cardinality(P) = 1 =>
                   \E kind \in P :
                       inspection.result.value = primitiveTypeFactory(leftType.isNullable, kind)
            /\ Cardinality(P) > 1 =>
                   /\ inspection.result.value.maybeExtendedKind = <<"AnyUnion">>
                   /\ Len(members) = Cardinality(P)
                   /\ {members[i].kind : i \in 1..Len(members)} = P
                   /\ \A i \in 1..Len(members) :
                          members[i].isNullable /\ members[i].maybeExtendedKind = <<>>

\* `1 *` with the right operand still a context: a number or a duration may
\* follow, and the answer is the union of the two, both nullable.
C12_Witness ==
    /\ inspection.fn = "inspectTypeTBinOpExpression"
    /\ Len(inspection.children) = 3
    /\ inspection.children[1].type = primitiveTypeFactory(FALSE, "Number")
    /\ inspection.children[2].kind = "Ast"
    /\ inspection.children[2].node.constantKind = "*"
    /\ inspection.children[3].kind = "Context"
    /\ inspection.result.value.maybeExtendedKind = <<"AnyUnion">>
    /\ inspection.result.value.unionedTypePairs =
           <<primitiveTypeFactory(TRUE, "Number"), primitiveTypeFactory(TRUE, "Duration")>>

\* C13.  Complete binary-op inference: left, operator and right are all
\* finished and the full table has an entry for (leftKind, op, rightKind) that
\* is not the record/table combine case.  The result is the primitive of the
\* table's result kind whose isNullable is leftNullable or rightNullable.
C13_CompleteLookup ==
    (/\ inspection.fn = "inspectTypeTBinOpExpression"
     /\ Len(inspection.children) = 3
     /\ inspection.children[2].kind = "Ast"
     /\ inspection.children[3].kind = "Ast") =>
        LET leftType == inspection.children[1].type
            operatorKind == inspection.children[2].node.constantKind
            rightType == inspection.children[3].type
            entries == {i \in 1..Len(LookupEntries) :
                           LookupEntries[i][1] =
                               lookupKey(leftType.kind, operatorKind, rightType.kind)}
        IN  \A i \in entries :
                ~(operatorKind = "&" /\ LookupEntries[i][2] \in {"Record", "Table"}) =>
                    inspection.result =
                        ReturnsValue(primitiveTypeFactory(
                            leftType.isNullable \/ rightType.isNullable, LookupEntries[i][2]))

\* A nullable duration times a number that is not nullable: a nullable duration.
C13_Witness ==
    /\ inspection.fn = "inspectTypeTBinOpExpression"
    /\ Len(inspection.children) = 3
    /\ inspection.children[1].kind = "Ast"
    /\ inspection.children[1].type = primitiveTypeFactory(TRUE, "Duration")
    /\ inspection.children[2].kind = "Ast"
    /\ inspection.children[2].node.constantKind = "*"
    /\ inspection.children[3].kind = "Ast"
    /\ inspection.children[3].type = primitiveTypeFactory(FALSE, "Number")
    /\ inspection.result = ReturnsValue(primitiveTypeFactory(TRUE, "Duration"))

\* C14.  Record/table combine with both sides extended (both DefinedRecord or
\* both DefinedTable): the result's field map has the union of both key sets
\* as its keys, the right side's value for every key present on the right and
\* the left side's value otherwise, isNullable = leftNullable and
\* rightNullable, and isOpen = leftOpen or rightOpen.
C14_BothExtendedMerge ==
    (/\ inspection.fn = "inspectRecordOrTableUnion"
     /\ inspection.leftType.maybeExtendedKind # <<>>
     /\ inspection.leftType.maybeExtendedKind = inspection.rightType.maybeExtendedKind) =>
        LET leftType == inspection.leftType
            rightType == inspection.rightType
            value == inspection.result.value
        IN  /\ ~inspection.result.threw
            /\ DOMAIN value.fields = DOMAIN leftType.fields \cup DOMAIN rightType.fields
            /\ \A key \in DOMAIN rightType.fields : value.fields[key] = rightType.fields[key]
            /\ \A key \in DOMAIN leftType.fields \ DOMAIN rightType.fields :
                   value.fields[key] = leftType.fields[key]
            /\ value.isNullable = (leftType.isNullable /\ rightType.isNullable)
            /\ value.isOpen = (leftType.isOpen \/ rightType.isOpen)

\* [a = number] & [a = text, b = number], the left nullable and closed, the
\* right open: a is text, the result is open and is not nullable.
C14_Witness ==
    /\ inspection.fn = "inspectRecordOrTableUnion"
    /\ inspection.leftType.maybeExtendedKind = <<"DefinedRecord">>
    /\ inspection.rightType.maybeExtendedKind = <<"DefinedRecord">>
    /\ inspection.leftType.isNullable /\ ~inspection.rightType.isNullable
    /\ ~inspection.leftType.isOpen /\ inspection.rightType.isOpen
    /\ DOMAIN inspection.leftType.fields = {"a"}
    /\ inspection.leftType.fields["a"].kind = "Number"
    /\ DOMAIN inspection.rightType.fields = {"a", "b"}
    /\ inspection.rightType.fields["a"].kind = "Text"
    /\ ~inspection.result.threw
    /\ inspection.result.value.fields = inspection.rightType.fields
    /\ inspection.result.value.isOpen
    /\ ~inspection.result.value.isNullable

\* C15.  Record/table combine with exactly one side extended returns that side
\* with isOpen set to true and every other attribute unchanged, whichever side
\* it is; with both sides unextended it returns the primitive of that kind.
C15_OneExtendedOpens ==
    (/\ inspection.fn = "inspectRecordOrTableUnion"
     /\ inspection.leftType.kind = inspection.rightType.kind) =>
        LET leftType == inspection.leftType
            rightType == inspection.rightType
        IN  /\ (leftType.maybeExtendedKind # <<>> /\ rightType.maybeExtendedKind = <<>>) =>
                   inspection.result = ReturnsValue([leftType EXCEPT !.isOpen = TRUE])
            /\ (leftType.maybeExtendedKind = <<>> /\ rightType.maybeExtendedKind # <<>>) =>
                   inspection.result = ReturnsValue([rightType EXCEPT !.isOpen = TRUE])
            /\ (leftType.maybeExtendedKind = <<>> /\ rightType.maybeExtendedKind = <<>>) =>
                   \E isNullable \in BOOLEAN :
                       inspection.result =
                           ReturnsValue(primitiveTypeFactory(isNullable, leftType.kind))

\* #table() & a closed, nullable defined table: the defined table, now open.
C15_Witness ==
    /\ inspection.fn = "inspectRecordOrTableUnion"
    /\ inspection.leftType = primitiveTypeFactory(FALSE, "Table")
    /\ inspection.rightType.maybeExtendedKind = <<"DefinedTable">>
    /\ ~inspection.rightType.isOpen
    /\ inspection.rightType.isNullable
    /\ DOMAIN inspection.rightType.fields = {"a", "b"}
    /\ inspection.result = ReturnsValue([inspection.rightType EXCEPT !.isOpen = TRUE])

\* C16 as stated.  The full operator table maps (K, =, K) and (K, <>, K) to
\* Logical for every type kind K, K being the kind of the left operand handed
\* to the inference.
C16_EqualityForEveryKind ==
    (inspection.fn = "inspectTypeTBinOpExpression" /\ Len(inspection.children) >= 1) =>
        LET K == inspection.children[1].type.kind
        IN  \A operatorKind \in EqualityOperatorKinds :
                PairsGet(Lookup, lookupKey(K, operatorKind, K)) = <<"Logical">>

\* C16.  The full operator table maps (K, =, K) and (K, <>, K) to Logical for
\* the thirteen kinds Null, Logical, Number, Time, Date, DateTime,
\* DateTimeZone, Duration, Text, Binary, List, Record and Table, and has no
\* equality entry for any other type kind.
C16_EqualityForTableKinds ==
    (inspection.fn = "inspectTypeTBinOpExpression" /\ Len(inspection.children) >= 1) =>
        LET K == inspection.children[1].type.kind
            kindsWithEquality ==
                {"Null", "Logical", "Number", "Time", "Date", "DateTime", "DateTimeZone",
                 "Duration", "Text", "Binary", "List", "Record", "Table"}
        IN  \A operatorKind \in EqualityOperatorKinds :
                PairsGet(Lookup, lookupKey(K, operatorKind, K)) =
                    IF K \in kindsWithEquality THEN <<"Logical">> ELSE <<>>

\* Two finished functions compared with `=`: the table has no entry and the
\* answer is None; two finished lists compared with `<>` would be Logical.
C16_Witness ==
    /\ inspection.fn = "inspectTypeTBinOpExpression"
    /\ Len(inspection.children) = 3
    /\ inspection.children[1].type = primitiveTypeFactory(FALSE, "Function")
    /\ inspection.children[2].kind = "Ast"
    /\ inspection.children[2].node.constantKind = "="
    /\ inspection.children[3].kind = "Ast"
    /\ inspection.children[3].type = primitiveTypeFactory(FALSE, "Function")
    /\ inspection.result = ReturnsValue(NoneInstance)
    /\ PairsGet(Lookup, lookupKey("List", "<>", "List")) = <<"Logical">>

C18_KeywordsBeginWithPositionName ==
    (/\ inspection.fn = "autocompleteKeyword"
     /\ MaybePositionName(inspection.activeNode) # <<>>) =>
        /\ ~inspection.result.threw
        /\ \A i \in 1..Len(inspection.result.value) :
               startsWith(inspection.result.value[i],
                          MaybePositionName(inspection.activeNode)[1])

\* `l|` in a new document: the early return of the first edge case answers
\* [let], and the position name is "l".
C18_Witness ==
    /\ inspection.fn = "autocompleteKeyword"
    /\ MaybePositionName(inspection.activeNode) = <<"l">>
    /\ Len(inspection.activeNode.ancestry) = 2
    /\ inspection.activeNode.ancestry[2].node.kind = "IdentifierExpression"
    /\ inspection.maybeTrailingToken = <<>>
    /\ inspection.result = ReturnsValue(<<"let">>)

\* The ancestry-derived list of a call, and the list before the final filter.
C19_AncestryDerived ==
    IF Len(inspection.activeNode.ancestry) < 2 THEN <<>>
    ELSE autocompleteKeyword_traverseAncestors(inspection.activeNode, inspection.routines)

C19_BeforeFinalFilter ==
    handleConjunctions(inspection.activeNode, C19_AncestryDerived, inspection.maybeTrailingToken)

C19_FinishedUnaryLeaf ==
    /\ inspection.activeNode.leafKind = "AfterAstNode"
    /\ inspection.activeNode.ancestry[1].kind = "Ast"
    /\ isTUnaryType(inspection.activeNode.ancestry[1])

C20_Fault ==
    /\ inspection.fn = "autocompleteKeyword"
    /\ Len(inspection.activeNode.ancestry) = 2
    /\ inspection.activeNode.ancestry[1].kind = "Context"
    /\ inspection.activeNode.ancestry[1].node.kind = "Constant"
    /\ inspection.activeNode.ancestry[2].node.kind = "ParameterList"
    /\ inspection.maybeTrailingToken # <<>>
    /\ inspection.maybeTrailingToken[1].data = "a"
    /\ inspection.result = Threw(TypeError)

\* Apart from that one dereference, both inspections return a list: every
\* fault of autocompleteKeyword is the one of ancestry[2] above, and
\* autocompletePrimitiveType has none.
C20_OnlyFault ==
    (/\ inspection.fn \in {"autocompleteKeyword", "autocompletePrimitiveType"}
     /\ inspection.result.threw) => C20_Fault

\* The node of a call's ancestry at a zero-based index, the leaf being 0.
C21_NodeAt(index) == inspection.activeNode.ancestry[index + 1]

C21_HasNodeAt(index) == index \in 0..(Len(inspection.activeNode.ancestry) - 1)

C21_FinishedWithCaretAfter(index) ==
    /\ C21_NodeAt(index).kind = "Ast"
    /\ inspection.activeNode.position > C21_NodeAt(index).node.tokenRange.positionEnd

\* (a) a TypePrimaryType that is the leaf, or whose child is a finished
\* attribute-0 node with the caret after it.
C21_OnTypePrimaryType(index) ==
    /\ C21_NodeAt(index).node.kind = "TypePrimaryType"
    /\ \/ index = 0
       \/ /\ C21_NodeAt(index - 1).node.maybeAttributeIndex = <<0>>
          /\ C21_FinishedWithCaretAfter(index - 1)

\* (b) a Parameter whose 4th ancestor is a FunctionExpression and whose node
\* two steps towards the leaf is a finished `as` with the caret after it, or
\* a NullablePrimitiveType with a PrimitiveType one step further.
C21_OnParameter(index) ==
    /\ C21_NodeAt(index).node.kind = "Parameter"
    /\ C21_HasNodeAt(index + 4)
    /\ C21_NodeAt(index + 4).node.kind = "FunctionExpression"
    /\ C21_HasNodeAt(index - 2)
    /\ \/ /\ C21_NodeAt(index - 2).node.kind = "Constant"
          /\ C21_FinishedWithCaretAfter(index - 2)
          /\ C21_NodeAt(index - 2).node.constantKind = "as"
       \/ /\ C21_NodeAt(index - 2).node.kind = "NullablePrimitiveType"
          /\ C21_HasNodeAt(index - 3)
          /\ C21_NodeAt(index - 3).node.kind = "PrimitiveType"

C21_Found ==
    \E index \in 0..(Len(inspection.activeNode.ancestry) - 1) :
        C21_OnTypePrimaryType(index) \/ C21_OnParameter(index)

\* C21.  autocompletePrimitiveType returns, in enumeration order, the
\* primitive-type names that start with the trailing token's text (all of
\* them without a trailing token) if the walk from the leaf finds (a) or (b),
\* and the empty list in every other case.
C21_PrimitiveTypeAnswer ==
    inspection.fn = "autocompletePrimitiveType" =>
        inspection.result =
            ReturnsValue(
                IF ~C21_Found THEN <<>>
                ELSE IF inspection.maybeTrailingToken = <<>> THEN PrimitiveTypeConstantKinds
                ELSE SelectSeq(PrimitiveTypeConstantKinds,
                               LAMBDA name :
                                   startsWith(name, inspection.maybeTrailingToken[1].data)))

\* `(x as nullable |) => 0`: a PrimitiveType under a NullablePrimitiveType,
\* three steps below a Parameter whose 4th ancestor is the FunctionExpression.
C21_Witness ==
    /\ inspection.fn = "autocompletePrimitiveType"
    /\ Len(inspection.activeNode.ancestry) = 8
    /\ C21_OnParameter(3)
    /\ C21_NodeAt(1).node.kind = "NullablePrimitiveType"
    /\ \A index \in 0..7 : ~C21_OnTypePrimaryType(index)
    /\ \A index \in 0..2 : ~C21_OnParameter(index)
    /\ inspection.maybeTrailingToken = <<>>
    /\ inspection.result = ReturnsValue(PrimitiveTypeConstantKinds)

\* The hints of the rollback that applies the innermost pending backup.
C22_Hints ==
    DeleteNewAstsHints([contextState EXCEPT !.idCounter = Head(backups).contextStateIdCounter],
                       SortDescending(NewNodeIds(Collection.astNodeById,
                                                 Head(backups).contextStateIdCounter)),
                       Head(backups).contextStateIdCounter)

\* C22.  During applyFastStateBackup the parentWillBeDeleted hint passed to
\* deleteAst for a node is true exactly when the node's parent is among the
\* nodes this rollback removes, that is when the parent's id is strictly
\* greater than backup.idCounter; for a node whose parent survives the hint is
\* false.
C22_HintIffParentRemoved ==
    [][lastOp' = "applyFastStateBackup" =>
           \A hint \in C22_Hints :
               hint.parentWillBeDeleted <=>
                   /\ hint.maybeParentId # <<>>
                   /\ hint.maybeParentId[1] > Head(backups).contextStateIdCounter]_vars

\* A rollback has just removed an AST node from under the context whose id is
\* the backup's id counter, and the context still lists it as its child.
C22_Fault ==
    /\ lastOp = "applyFastStateBackup"
    /\ \E parentId \in ContextIds :
           /\ parentId = contextState.idCounter
           /\ \E i \in 1..Len(ChildIds(Collection, parentId)) :
                  ChildIds(Collection, parentId)[i] \notin LiveIds

\* The deletion order of the rollback that applies the innermost pending
\* backup, and the place of a removed node in it.
C23_Order == RollbackOrder(contextState, Head(backups))

C23_Place(nodeId) == CHOOSE i \in 1..Len(C23_Order) : C23_Order[i] = nodeId

C23_Removed == {C23_Order[i] : i \in 1..Len(C23_Order)}

\* Deleting the nodes of order one after the other, each with the delete of
\* the map that holds it.
RECURSIVE C23_DeleteInOrder(_, _, _)
C23_DeleteInOrder(state, order, backupIdCounter) ==
    IF order = <<>> THEN state
    ELSE IF Head(order) \in DOMAIN state.nodeIdMapCollection.astNodeById
    THEN C23_DeleteInOrder(
             ParseContextUtils_deleteAst(
                 state, Head(order),
                 ParentWillBeDeleted(MapGet(state.nodeIdMapCollection.parentIdById,
                                            Head(order)),
                                     backupIdCounter)),
             Tail(order), backupIdCounter)
    ELSE C23_DeleteInOrder(ParseContextUtils_deleteContext(state, Head(order)),
                           Tail(order), backupIdCounter)

C24_OpenContextBeforeTokens ==
    (pc = "done" /\ ~readOutcome.threw) =>
        /\ maybeCurrentContextNode # <<>> =>
               result = [kind |-> "Err",
                         error |-> [kind |-> "CommonError",
                                    innerError |-> <<NewError("InvariantError")>>]]
        /\ (maybeCurrentContextNode = <<>> /\ tokenIndex < Len(lexerSnapshot.tokens)) =>
               result = [kind |-> "Err",
                         error |-> [kind |-> "ParseError",
                                    innerError |->
                                        <<[kind |-> "UnusedTokensRemainError",
                                           innerError |-> <<>>,
                                           token |-> lexerSnapshot.tokens[tokenIndex + 1]]>>,
                                    state |-> State]]

\* parser.read returned with a context open and a token unread: the answer
\* is the CommonError.
C24_Witness ==
    /\ pc = "done"
    /\ ~readOutcome.threw
    /\ maybeCurrentContextNode # <<>>
    /\ tokenIndex < Len(lexerSnapshot.tokens)
    /\ result.kind = "Err"
    /\ result.error.kind = "CommonError"

\* A call of the partial case: the operator is finished, the right operand is
\* absent or still a context.
C25_PartialCase ==
    /\ inspection.fn = "inspectTypeTBinOpExpression"
    /\ Len(inspection.children) >= 2
    /\ inspection.children[2].kind = "Ast"
    /\ (Len(inspection.children) = 2 \/ inspection.children[3].kind = "Context")

C25_LeftKind == inspection.children[1].type.kind

C25_OperatorKind == inspection.children[2].node.constantKind

\* The set the partial case uses, the right kinds the full table has an
\* entry for, and the result kinds of those entries.
C25_Allowed == PairsGet(PartialLookup, partialLookupKey(C25_LeftKind, C25_OperatorKind))

C25_RightKinds ==
    {kind \in TypeKinds :
        PairsGet(Lookup, lookupKey(C25_LeftKind, C25_OperatorKind, kind)) # <<>>}

C25_ResultKinds ==
    {PairsGet(Lookup, lookupKey(C25_LeftKind, C25_OperatorKind, kind))[1] :
        kind \in C25_RightKinds}

\* C25 as stated.  The partial lookup on (leftKind, op) yields the set of
\* admissible result kinds: the set used in the partial case equals the set of
\* result kinds the full table assigns to (leftKind, op, r) over all right
\* kinds r, so in the singleton case the returned primitive has the kind the
\* completed expression would have.
C25_PartialYieldsResultKinds ==
    (C25_PartialCase /\ C25_Allowed # <<>>) =>
        /\ {C25_Allowed[1][i] : i \in 1..Len(C25_Allowed[1])} = C25_ResultKinds
        /\ Len(C25_Allowed[1]) = 1 => inspection.result.value.kind \in C25_ResultKinds

\* C25.  The partial lookup on (leftKind, op) yields the set of admissible
\* right-operand kinds: the set used in the partial case is the set of kinds
\* r for which the full table has an entry (leftKind, op, r), each once, and
\* there is no partial entry when there is no such r; in the singleton case
\* the returned primitive has the kind of that right operand.
C25_PartialYieldsRightKinds ==
    C25_PartialCase =>
        /\ C25_Allowed = <<>> <=> C25_RightKinds = {}
        /\ C25_Allowed # <<>> =>
               /\ {C25_Allowed[1][i] : i \in 1..Len(C25_Allowed[1])} = C25_RightKinds
               /\ Len(C25_Allowed[1]) = Cardinality(C25_RightKinds)
               /\ Len(C25_Allowed[1]) = 1 =>
                      /\ ~inspection.result.threw
                      /\ inspection.result.value.kind \in C25_RightKinds

\* `1 <`: only a number may follow, and the answer is Number although the
\* completed comparison is a Logical.
C25_Witness ==
    /\ C25_PartialCase
    /\ C25_LeftKind = "Number"
    /\ C25_OperatorKind = "<"
    /\ C25_RightKinds = {"Number"}
    /\ C25_ResultKinds = {"Logical"}
    /\ inspection.result = ReturnsValue(primitiveTypeFactory(
                               inspection.children[1].type.isNullable, "Number"))

\* A call of the complete case that reaches the combine step: the operator is
\* & and the full table's result for the two kinds is Record or Table.
C26_ReachesCombine ==
    /\ inspection.fn = "inspectTypeTBinOpExpression"
    /\ Len(inspection.children) = 3
    /\ inspection.children[2].kind = "Ast"
    /\ inspection.children[3].kind = "Ast"
    /\ inspection.children[2].node.constantKind = "&"
    /\ \E resultTypeKind \in {"Record", "Table"} :
           <<inspection.children[1].type.kind \o ",&," \o inspection.children[3].type.kind,
             resultTypeKind>> \in {Lookup[i] : i \in 1..Len(Lookup)}

\* C26.  The record-versus-table mismatch is prevented by the lookup: every
\* pair of operand types that reaches the combine step from
\* inspectTypeTBinOpExpression has one kind on both sides, so neither the
\* InvariantError branch `leftType.kind !== rightType.kind` nor the
\* should-never-be-reached branch of inspectRecordOrTableUnion is taken, and
\* the inference never throws.
C26_MismatchPrevented ==
    /\ C26_ReachesCombine =>
           /\ inspection.children[1].type.kind = inspection.children[3].type.kind
           /\ inspection.children[1].type.kind \in {"Record", "Table"}
           /\ (inspection.children[1].type.maybeExtendedKind # <<>>
               /\ inspection.children[3].type.maybeExtendedKind # <<>>) =>
                   inspection.children[1].type.maybeExtendedKind =
                       inspection.children[3].type.maybeExtendedKind
    /\ inspection.fn = "inspectTypeTBinOpExpression" => ~inspection.result.threw

\* `[a = 1] & [a = ""]`: two defined records reach the combine step and are
\* merged.
C26_Witness ==
    /\ C26_ReachesCombine
    /\ inspection.children[1].type.maybeExtendedKind = <<"DefinedRecord">>
    /\ inspection.children[3].type.maybeExtendedKind = <<"DefinedRecord">>
    /\ ~inspection.result.threw
    /\ inspection.result.value.maybeExtendedKind = <<"DefinedRecord">>

\* C27.  Ending a context, deleting the current context (deleteContext with
\* no id) or incrementing the attribute counter while no context is open is
\* an invariant violation: the operation raises and leaves tokenIndex, the
\* current token, maybeCurrentContextNode and the node-id map unchanged.
C27_NoContextRaises ==
    [][(/\ pc = "read"
        /\ maybeCurrentContextNode = <<>>
        /\ lastOp' \in {"endContext", "deleteContext", "incrementAttributeCounter"}) =>
           /\ pc' = "done"
           /\ readOutcome' = [threw |-> TRUE, error |-> NewError("InvariantError")]
           /\ UNCHANGED <<tokenIndex, maybeCurrentToken, maybeCurrentTokenKind,
                          maybeCurrentContextNode, contextState>>]_vars

\* The only context was ended after its token was read, and the attribute
\* counter was then incremented: the operation raised and the finished node
\* is still in the map.
C27_Witness ==
    /\ pc = "done"
    /\ lastOp = "incrementAttributeCounter"
    /\ readOutcome = [threw |-> TRUE, error |-> NewError("InvariantError")]
    /\ maybeCurrentContextNode = <<>>
    /\ tokenIndex = 1
    /\ AstIds # {}

C29_AncestryTerminates ==
    /\ \A id \in DOMAIN Collection.parentIdById :
           /\ Collection.parentIdById[id] < id
           /\ Collection.parentIdById[id] # 0
    /\ 0 \notin LiveIds
    /\ pc = "inspected" =>
           /\ ~ancestry.diverges
           /\ Len(ancestry.value) <= ancestry.rootId

\* The ancestry of a node with a parent was taken from a map in which a
\* rollback has left a child list naming a node that is no longer there.
C29_Witness ==
    /\ pc = "inspected"
    /\ ~ancestry.diverges
    /\ ~ancestry.threw
    /\ Len(ancestry.value) >= 2
    /\ \E id \in DOMAIN Collection.childIdsById :
           \E i \in DOMAIN Collection.childIdsById[id] :
               Collection.childIdsById[id][i] \notin LiveIds

\* The right-operand kinds the full table pairs with the left operand's kind
\* and the operator of the inspected expression.
C30_RightKindsInTable ==
    {kind \in TypeKinds :
        \E i \in 1..Len(LookupKeys) :
            LookupKeys[i] = lookupKey(inspection.children[1].type.kind,
                                      inspection.children[2].node.constantKind, kind)}

C30_PartialCase ==
    /\ inspection.fn = "inspectTypeTBinOpExpression"
    /\ Len(inspection.children) >= 2
    /\ inspection.children[2].kind = "Ast"
    /\ (Len(inspection.children) = 2 \/ inspection.children[3].kind = "Context")

C30_CompleteCase ==
    /\ inspection.fn = "inspectTypeTBinOpExpression"
    /\ Len(inspection.children) = 3
    /\ inspection.children[2].kind = "Ast"
    /\ inspection.children[3].kind = "Ast"

\* C30.  An operand combination with no table entry yields the None type
\* rather than a fault: in the partial case when no key of the full table
\* begins with (leftKind, op), and in the complete case when
\* (leftKind, op, rightKind) is not a key of the full table,
\* inspectTypeTBinOpExpression returns None.
C30_NoEntryYieldsNone ==
    /\ (C30_PartialCase /\ C30_RightKindsInTable = {}) =>
           inspection.result = ReturnsValue(NoneInstance)
    /\ (/\ C30_CompleteCase
        /\ \A i \in 1..Len(LookupKeys) :
               LookupKeys[i] # lookupKey(inspection.children[1].type.kind,
                                         inspection.children[2].node.constantKind,
                                         inspection.children[3].type.kind)) =>
           inspection.result = ReturnsValue(NoneInstance)

\* `f +` with f a function and nothing after the operator: no key of the
\* table begins with a function and `+`, and the answer is None.
C30_Witness ==
    /\ C30_PartialCase
    /\ Len(inspection.children) = 2
    /\ inspection.children[1].type.kind = "Function"
    /\ inspection.children[2].node.constantKind = "+"
    /\ C30_RightKindsInTable = {}
    /\ inspection.result = ReturnsValue(NoneInstance)

============================================================================
